---- MODULE Spec2Model ----
(***************************************************************************)
(* Model of the ZTE C320 OLT Prometheus exporter: the address resolver of  *)
(* internal/usecase/onu.go and the scrape cycle OnuCollector.Collect of    *)
(* internal/exporter/collector.go (discovery producer, worker pool, merge   *)
(* into the shared sync.Map, emission).                                     *)
(***************************************************************************)
EXTENDS Integers, Sequences, FiniteSets, TLC

(* ------------------------------ bounds --------------------------------- *)
\* capacity of the jobs channel; stands for make(chan ..., 1000), scaled down
JobsCap == 1
\* largest worker pool size (maxConcurrent) explored
MaxWorkers == 2
\* largest number of devices the scanned ports hold together
MaxDevices == 2
\* largest number of (address, value) pairs in a response that is decoded
\* on its own
MaxPairs == 3
\* largest number of pdus a discovery walk visits when it is run on its own
MaxVisited == 3
\* largest page index and page size asked of the paginated listing
MaxPage == 3
\* calls of Collect that run side by side, and the devices each may discover
MaxCalls == 2
MaxCallDevices == 1

\* device ids a discovery walk may report for one (board, port)
OnuIDs == {3, 5}
\* serial numbers a detail fetch may decode ("" = absent / malformed)
Serials == {"", "DUP01", "ABC123"}
\* serial numbers whose appearance in earlier cycles is remembered
TrackedSerials == {"ABC123"}
\* status texts a detail fetch may decode
Statuses == {"Unknown", "LOS"}
\* scan ranges (boardMin, boardMax, ponMin, ponMax) the collector may hold
ScanRanges ==
    { [boardMin |-> 1, boardMax |-> 2, ponMin |-> 16, ponMax |-> 16],
      [boardMin |-> 2, boardMax |-> 3, ponMin |-> 16, ponMax |-> 16],
      [boardMin |-> 1, boardMax |-> 1, ponMin |-> 16, ponMax |-> 17] }
\* inputs of the address resolver explored on their own
ProbeBoards == 0 .. 3
ProbePons == (-4) .. 21

(* --------------------------- address resolver -------------------------- *)
\* a Go pointer is a sequence: <<>> is nil, <<v>> points to v
NilPtr == << >>
\* a Go error is a text: ErrNil is the nil error
ErrNil == "nil"

\* the model.OltConfig literal of one `case` of getBoard1Config/getBoard2Config:
\* BaseOID is cfg.OltCfg.BaseOID1, every other field is the field of the same
\* name of cfg.Board<b>Pon<p>
OltConfigLiteral(b, p) ==
    [ BaseOID                   |-> <<"OltCfg", "BaseOID1">>,
      OnuIDNameOID              |-> <<b, p, "OnuIDNameOID">>,
      OnuTypeOID                |-> <<b, p, "OnuTypeOID">>,
      OnuSerialNumberOID        |-> <<b, p, "OnuSerialNumberOID">>,
      OnuRxPowerOID             |-> <<b, p, "OnuRxPowerOID">>,
      OnuTxPowerOID             |-> <<b, p, "OnuTxPowerOID">>,
      OnuStatusOID              |-> <<b, p, "OnuStatusOID">>,
      OnuIPAddressOID           |-> <<b, p, "OnuIPAddressOID">>,
      OnuDescriptionOID         |-> <<b, p, "OnuDescriptionOID">>,
      OnuLastOnlineOID          |-> <<b, p, "OnuLastOnlineOID">>,
      OnuLastOfflineOID         |-> <<b, p, "OnuLastOfflineOID">>,
      OnuLastOfflineReasonOID   |-> <<b, p, "OnuLastOfflineReasonOID">>,
      OnuGponOpticalDistanceOID |-> <<b, p, "OnuGponOpticalDistanceOID">> ]

\* switch ponID { case 1: ... case 16: ...; default: log; return nil }
getBoard1Config(ponID) ==
    IF ponID \in 1 .. 16 THEN << OltConfigLiteral(1, ponID) >> ELSE NilPtr

\* mutant of getBoard2Config: the cases were copied from board 1 and the
\* section names not changed
getBoard2ConfigOfBoard1(ponID) ==
    IF ponID \in 1 .. 16 THEN << OltConfigLiteral(1, ponID) >> ELSE NilPtr

getBoard2Config(ponID) ==
    IF ponID \in 1 .. 16 THEN << OltConfigLiteral(2, ponID) >> ELSE NilPtr

\* switch boardID { case 1; case 2; default: error }
getBoardConfig(boardID, ponID) ==
    CASE boardID = 1 -> [cfg |-> getBoard1Config(ponID), err |-> ErrNil]
      [] boardID = 2 -> [cfg |-> getBoard2Config(ponID), err |-> ErrNil]
      [] OTHER       -> [cfg |-> NilPtr, err |-> "invalid Board ID"]

getOltConfig(boardID, ponID) ==
    LET r == getBoardConfig(boardID, ponID)
    IN  IF r.err # ErrNil THEN [cfg |-> NilPtr, err |-> r.err]
        ELSE [cfg |-> r.cfg, err |-> ErrNil]

(* ------------------------------ collector ------------------------------ *)
\* mutant of mapStatusToNumeric: the case Power-Off is missing
mapStatusToNumericNoPowerOff(status) ==
    CASE status = "Online"     -> 1
      [] status = "Dying Gasp" -> 2
      [] status = "LOS"        -> 3
      [] OTHER                 -> 0

mapStatusToNumeric(status) ==
    CASE status = "Online"     -> 1
      [] status = "Dying Gasp" -> 2
      [] status = "LOS"        -> 3
      [] status = "Power-Off"  -> 4
      [] OTHER                 -> 0

\* a discovered job (model.ONUInfoPerBoard: Board, PON, ID)
Job(b, p, id) == [Board |-> b, PON |-> p, ID |-> id]
NoJob == [Board |-> 0, PON |-> 0, ID |-> 0]
\* a detail record (model.ONUCustomerInfo: Board, PON, ID, SerialNumber, Status)
Record(job, serial, status) ==
    [Board |-> job.Board, PON |-> job.PON, ID |-> job.ID,
     SerialNumber |-> serial, Status |-> status]
NoRecord == [Board |-> 0, PON |-> 0, ID |-> 0, SerialNumber |-> "", Status |-> ""]

\* sort.Slice(onuInformationList, by ID) over the ids collected by the walk
RECURSIVE SortedIDs(_)
SortedIDs(ids) ==
    IF ids = {} THEN << >>
    ELSE LET m == CHOOSE x \in ids : \A y \in ids : x <= y
         IN  << m >> \o SortedIDs(ids \ {m})

\* mutant of DiscoveredOnus: the walk error is dropped and the ids visited
\* before the failure are returned as the list of the cell
DiscoveredOnusIgnoringError(boardID, ponID, walkErr, ids) ==
    [list |-> [i \in 1 .. Cardinality(ids) |->
                  Job(boardID, ponID, SortedIDs(ids)[i])],
     err |-> ErrNil]

\* GetByBoardIDAndPonID after the walk: (nil, err) on a walk error, whatever
\* the walk had visited before it failed; else the list sorted by id
DiscoveredOnus(boardID, ponID, walkErr, ids) ==
    IF walkErr # ErrNil THEN [list |-> << >>, err |-> walkErr]
    ELSE [list |-> [i \in 1 .. Cardinality(ids) |->
                       Job(boardID, ponID, SortedIDs(ids)[i])],
          err |-> ErrNil]

\* mutant of DetailResult: the transport error is dropped and a record is
\* built from whatever the response holds
DetailResultIgnoringError(job, getErr, serial, status) ==
    [rec |-> Record(job, serial, status), err |-> ErrNil]

\* GetByBoardIDPonIDAndOnuID after the Get: the empty record and err on a
\* transport error, else the record decoded for (boardID, ponID, onuID)
DetailResult(job, getErr, serial, status) ==
    IF getErr # ErrNil THEN [rec |-> NoRecord, err |-> getErr]
    ELSE [rec |-> Record(job, serial, status), err |-> ErrNil]

\* mutant of HasSerial: the check of the serial number is missing
HasSerialUnchecked(rec) == TRUE

\* if detailedOnu.SerialNumber == "" { continue }
HasSerial(rec) == rec.SerialNumber # ""

\* mutant of ShouldStore: on a tie (both Unknown, or both not) the incoming
\* record replaces the stored one
ShouldStoreLatestOnTie(exists, existingOnu, detailedOnu) ==
    IF exists
    THEN ~( mapStatusToNumeric(existingOnu.Status) # 0
            /\ mapStatusToNumeric(detailedOnu.Status) = 0 )
    ELSE TRUE

\* the decision taken after uniqueOnus.Load: store the incoming record?
ShouldStore(exists, existingOnu, detailedOnu) ==
    IF exists
    THEN mapStatusToNumeric(existingOnu.Status) = 0
         /\ mapStatusToNumeric(detailedOnu.Status) # 0
    ELSE TRUE

VARIABLES
    scan,          \* collector fields boardMin, boardMax, ponMin, ponMax
    maxConcurrent, \* collector field maxConcurrent
    ppc,           \* position of the Collect goroutine
    cell,          \* loop variables <<boardID, ponID>>
    discoveredOnus,\* the part of the current cell's list not yet sent
    jobs,          \* content of the jobs channel
    closed,        \* close(jobs) has run
    wpc,           \* position of each worker goroutine
    wjob,          \* the job a worker holds
    wrec,          \* the record a worker holds (detailedOnu)
    uniqueOnus,    \* the sync.Map: serial number -> record
    ctxDone,       \* the 30 s timer of ctx has fired
    crashed,       \* a goroutine has panicked: the process is gone
    emitted,       \* records handed to sendMetrics
    outcome,       \* history: enqueued job -> what became of its fetch
    skipped,       \* history: <<cell, why>> for each cell that failed
    visited,       \* history: cells whose discovery call has returned
    discovered,    \* history: jobs returned by the discovery calls
    issued,        \* history: job -> number of Get calls issued for it
    probe,         \* input and result of a call made on its own
    previous,      \* history: tracked serial numbers sent by earlier cycles
    calls          \* the calls of Collect that run side by side (see below)

vars == << scan, maxConcurrent, ppc, cell, discoveredOnus, jobs, closed, wpc,
           wjob, wrec, uniqueOnus, ctxDone, crashed, emitted, outcome, skipped,
           visited, probe, discovered, issued, previous, calls >>

Workers == DOMAIN wpc
NoProbe == [called |-> FALSE, boardID |-> 0, ponID |-> 0,
            cfg |-> NilPtr, err |-> ErrNil]

Init ==
    /\ scan \in ScanRanges
    /\ maxConcurrent \in 1 .. MaxWorkers
    /\ ppc = "idle"
    /\ cell = << 0, 0 >>
    /\ discoveredOnus = << >>
    /\ jobs = << >>
    /\ closed = FALSE
    /\ wpc = << >>
    /\ wjob = << >>
    /\ wrec = << >>
    /\ uniqueOnus = << >>
    /\ calls = << >>
    /\ ctxDone = FALSE
    /\ crashed = FALSE
    /\ emitted = {}
    /\ outcome = << >>
    /\ skipped = {}
    /\ visited = {}
    /\ discovered = {}
    /\ issued = << >>
    /\ probe = NoProbe
    /\ previous = {}

(* --------------------------- the Collect goroutine --------------------- *)
\* the two nested for loops: the first cell, or none when a range is empty
FirstCell ==
    IF scan.boardMin <= scan.boardMax /\ scan.ponMin <= scan.ponMax
    THEN [ppc |-> "discover", cell |-> << scan.boardMin, scan.ponMin >>]
    ELSE [ppc |-> "close", cell |-> << 0, 0 >>]

\* ponID++ / boardID++: the cell after c, or the end of both loops
AfterCell(c) ==
    IF c[2] + 1 <= scan.ponMax
    THEN [ppc |-> "discover", cell |-> << c[1], c[2] + 1 >>]
    ELSE IF c[1] + 1 <= scan.boardMax
         THEN [ppc |-> "discover", cell |-> << c[1] + 1, scan.ponMin >>]
         ELSE [ppc |-> "close", cell |-> << 0, 0 >>]

\* mutant of PoolIDs: the loop that starts the workers runs once too often
PoolIDsOneMore == 1 .. maxConcurrent + 1

\* for i := 0; i < c.maxConcurrent; i++ { go func() ... }
PoolIDs == 1 .. maxConcurrent

\* mutant of NewMap: the map outlives the call (a package-level variable)
NewMapKept == uniqueOnus

\* uniqueOnus := sync.Map{}: a map local to the call, empty
NewMap == << >>

\* the start of Collect: ctx with its 30 s timer, the WaitGroup, the empty
\* sync.Map, the jobs channel; maxConcurrent workers are started
StartCycle ==
    /\ ~crashed
    /\ ctxDone' = FALSE
    /\ uniqueOnus' = NewMap
    /\ jobs' = << >>
    /\ closed' = FALSE
    /\ wpc' = [w \in PoolIDs |-> "recv"]
    /\ wjob' = [w \in PoolIDs |-> NoJob]
    /\ wrec' = [w \in PoolIDs |-> NoRecord]
    /\ ppc' = FirstCell.ppc
    /\ cell' = FirstCell.cell
    /\ discoveredOnus' = << >>
    /\ emitted' = {}
    /\ outcome' = << >>
    /\ skipped' = {}
    /\ visited' = {}
    /\ discovered' = {}
    /\ issued' = << >>
    /\ previous' = previous \cup ({r.SerialNumber : r \in emitted} \cap TrackedSerials)
    /\ UNCHANGED << scan, maxConcurrent, crashed, probe, calls >>

\* Collect is called for the first scrape
Collect ==
    /\ ppc = "idle"
    /\ StartCycle

\* Collect is called for a later scrape, after the previous call returned
CollectAgain ==
    /\ ppc = "done"
    /\ StartCycle

\* GetByBoardIDAndPonID up to the call of Walk: getOltConfig fails (the cell is
\* skipped), returns a nil config without error (oltConfig.BaseOID panics), or
\* the walk is issued
Discover ==
    /\ ppc = "discover"
    /\ ~crashed
    /\ LET r == getOltConfig(cell[1], cell[2])
       IN  IF r.err # ErrNil
           THEN /\ ppc' = AfterCell(cell).ppc
                /\ cell' = AfterCell(cell).cell
                /\ skipped' = skipped \cup {<< cell, "address" >>}
                /\ visited' = visited \cup {cell}
                /\ crashed' = crashed
           ELSE IF r.cfg = NilPtr
                THEN /\ crashed' = TRUE
                     /\ UNCHANGED << ppc, cell, skipped, visited >>
                ELSE /\ ppc' = "walk"
                     /\ UNCHANGED << cell, skipped, visited, crashed >>
    /\ UNCHANGED << scan, maxConcurrent, discoveredOnus, jobs, closed, wpc, wjob,
                    wrec, uniqueOnus, ctxDone, emitted, outcome, probe,
                    discovered, issued, previous, calls >>

\* the walk returns: an error (the cell is skipped) or the ids it visited,
\* which become the sorted list of the cell
WalkReturn ==
    /\ ppc = "walk"
    /\ ~crashed
    /\ \E walkErr \in {ErrNil, "walk failed"}, ids \in SUBSET OnuIDs :
          /\ Cardinality(DOMAIN outcome) + Cardinality(ids) <= MaxDevices
          /\ skipped' = IF walkErr # ErrNil
                        THEN skipped \cup {<< cell, "walk" >>} ELSE skipped
          /\ visited' = visited \cup {cell}
          /\ discovered' =
                LET l == DiscoveredOnus(cell[1], cell[2], walkErr, ids).list
                IN  discovered \cup {l[i] : i \in DOMAIN l}
          /\ LET r == DiscoveredOnus(cell[1], cell[2], walkErr, ids)
             IN  IF r.err # ErrNil \/ r.list = << >>
                 THEN /\ ppc' = AfterCell(cell).ppc
                      /\ cell' = AfterCell(cell).cell
                      /\ discoveredOnus' = << >>
                 ELSE /\ ppc' = "enqueue"
                      /\ cell' = cell
                      /\ discoveredOnus' = r.list
    /\ UNCHANGED << scan, maxConcurrent, jobs, closed, wpc, wjob, wrec,
                    uniqueOnus, ctxDone, crashed, emitted, outcome, probe,
                    issued, previous, calls >>

\* mutant of Enqueue: the job sent names the other board
EnqueueForOtherBoard ==
    /\ ppc = "enqueue"
    /\ ~crashed
    /\ Len(jobs) < JobsCap
    /\ LET onu == [Head(discoveredOnus) EXCEPT !.Board = 3 - @]
       IN  /\ jobs' = Append(jobs, onu)
           /\ outcome' = (onu :> [st |-> "queued", rec |-> NoRecord]) @@ outcome
    /\ discoveredOnus' = Tail(discoveredOnus)
    /\ IF Tail(discoveredOnus) = << >>
       THEN /\ ppc' = AfterCell(cell).ppc
            /\ cell' = AfterCell(cell).cell
       ELSE UNCHANGED << ppc, cell >>
    /\ UNCHANGED << scan, maxConcurrent, closed, wpc, wjob, wrec, uniqueOnus,
                    ctxDone, crashed, emitted, skipped, visited, probe,
                    discovered, issued, previous, calls >>

\* jobs <- onu: blocks while the channel is full
Enqueue ==
    /\ ppc = "enqueue"
    /\ ~crashed
    /\ Len(jobs) < JobsCap
    /\ jobs' = Append(jobs, Head(discoveredOnus))
    /\ outcome' = (Head(discoveredOnus) :> [st |-> "queued", rec |-> NoRecord]) @@ outcome
    /\ discoveredOnus' = Tail(discoveredOnus)
    /\ IF Tail(discoveredOnus) = << >>
       THEN /\ ppc' = AfterCell(cell).ppc
            /\ cell' = AfterCell(cell).cell
       ELSE UNCHANGED << ppc, cell >>
    /\ UNCHANGED << scan, maxConcurrent, closed, wpc, wjob, wrec, uniqueOnus,
                    ctxDone, crashed, emitted, skipped, visited, probe,
                    discovered, issued, previous, calls >>

\* close(jobs)
CloseJobs ==
    /\ ppc = "close"
    /\ ~crashed
    /\ closed' = TRUE
    /\ ppc' = "wait"
    /\ UNCHANGED << scan, maxConcurrent, cell, discoveredOnus, jobs, wpc, wjob,
                    wrec, uniqueOnus, ctxDone, crashed, emitted, outcome,
                    skipped, visited, probe,
                    discovered, issued, previous, calls >>

\* mutant of WaitReturns: the wait ends with the first worker that exits
WaitReturnsOnFirstExit(pcs) == \E w \in DOMAIN pcs : pcs[w] = "exit"

\* wg.Wait() returns when every worker has called wg.Done()
WaitReturns(pcs) == \A w \in DOMAIN pcs : pcs[w] = "exit"

WgWait ==
    /\ ppc = "wait"
    /\ ~crashed
    /\ WaitReturns(wpc)
    /\ ppc' = "emit"
    /\ UNCHANGED << scan, maxConcurrent, cell, discoveredOnus, jobs, closed, wpc,
                    wjob, wrec, uniqueOnus, ctxDone, crashed, emitted, outcome,
                    skipped, visited, probe,
                    discovered, issued, previous, calls >>

\* uniqueOnus.Range(sendMetrics), then Collect returns (defer cancel())
Emit ==
    /\ ppc = "emit"
    /\ ~crashed
    /\ emitted' = {uniqueOnus[s] : s \in DOMAIN uniqueOnus}
    /\ ppc' = "done"
    /\ UNCHANGED << scan, maxConcurrent, cell, discoveredOnus, jobs, closed, wpc,
                    wjob, wrec, uniqueOnus, ctxDone, crashed, outcome, skipped,
                    visited, probe,
                    discovered, issued, previous, calls >>

\* the timer of context.WithTimeout fires while Collect is running
DeadlineExpires ==
    /\ ppc \notin {"idle", "done"}
    /\ ~crashed
    /\ ~ctxDone
    /\ ctxDone' = TRUE
    /\ UNCHANGED << scan, maxConcurrent, ppc, cell, discoveredOnus, jobs, closed,
                    wpc, wjob, wrec, uniqueOnus, crashed, emitted, outcome,
                    skipped, visited, probe,
                    discovered, issued, previous, calls >>

(* ------------------------------ the workers ---------------------------- *)
\* kinds of value the response may carry for a timestamp address
TimestampKinds == {"nil", "bytes", "other"}

\* pdu.Value.([]byte) on a non-nil value that is no byte string panics
AssertBytesPanics(kind) == kind = "other"

\* mutant of Receive: the received job stays in the channel
ReceiveKeeps(q) == q

\* what a receive leaves in the channel: the received job is removed
Receive(q) == Tail(q)

\* for discoveredOnu := range jobs: a job is received and
\* GetByBoardIDPonIDAndOnuID runs up to the call of Get
WorkerRecv(w) ==
    /\ wpc[w] = "recv"
    /\ ~crashed
    /\ jobs # << >>
    /\ jobs' = Receive(jobs)
    /\ LET job == Head(jobs)
           r == getOltConfig(job.Board, job.PON)
       IN  IF r.err # ErrNil
           THEN /\ outcome' = [outcome EXCEPT ![job].st = "error"]
                /\ UNCHANGED << wpc, wjob, crashed, issued, previous, calls >>
           ELSE IF r.cfg = NilPtr
                THEN /\ crashed' = TRUE
                     /\ UNCHANGED << wpc, wjob, outcome, issued, previous, calls >>
                ELSE /\ wpc' = [wpc EXCEPT ![w] = "get"]
                     /\ wjob' = [wjob EXCEPT ![w] = job]
                     /\ outcome' = [outcome EXCEPT ![job].st = "taken"]
                     /\ issued' = (job :> (IF job \in DOMAIN issued
                                           THEN issued[job] ELSE 0) + 1) @@ issued
                     /\ crashed' = crashed
    /\ UNCHANGED << scan, maxConcurrent, ppc, cell, discoveredOnus, closed, wrec,
                    uniqueOnus, ctxDone, emitted, skipped, visited, probe,
                    discovered, previous, calls >>

\* range jobs ends: the channel is closed and empty; defer wg.Done()
WorkerExit(w) ==
    /\ wpc[w] = "recv"
    /\ ~crashed
    /\ jobs = << >>
    /\ closed
    /\ wpc' = [wpc EXCEPT ![w] = "exit"]
    /\ UNCHANGED << scan, maxConcurrent, ppc, cell, discoveredOnus, jobs, closed,
                    wjob, wrec, uniqueOnus, ctxDone, crashed, emitted, outcome,
                    skipped, visited, probe,
                    discovered, issued, previous, calls >>

\* Get returns: a transport error (logged, continue), or a response that is
\* decoded; a record without serial number is dropped (continue)
GetReturn(w) ==
    /\ wpc[w] = "get"
    /\ ~crashed
    /\ \E getErr \in {ErrNil, "get failed"}, serial \in Serials,
          status \in Statuses, ts \in TimestampKinds :
          /\ getErr # ErrNil => ts = "nil"
          /\ LET r == DetailResult(wjob[w], getErr, serial, status)
             IN  IF getErr = ErrNil /\ AssertBytesPanics(ts)
                 THEN /\ crashed' = TRUE
                      /\ UNCHANGED << wpc, wjob, wrec, outcome >>
                 ELSE /\ crashed' = crashed
                      /\ wjob' = [wjob EXCEPT ![w] = NoJob]
                      /\ outcome' = [outcome EXCEPT ![wjob[w]] =
                                        IF getErr # ErrNil
                                        THEN [st |-> "error", rec |-> NoRecord]
                                        ELSE [st |-> "got", rec |-> r.rec]]
                      /\ IF r.err # ErrNil
                         THEN /\ wpc' = [wpc EXCEPT ![w] = "recv"]
                              /\ wrec' = wrec
                         ELSE /\ IF HasSerial(r.rec)
                                 THEN /\ wpc' = [wpc EXCEPT ![w] = "load"]
                                      /\ wrec' = [wrec EXCEPT ![w] = r.rec]
                                 ELSE /\ wpc' = [wpc EXCEPT ![w] = "recv"]
                                      /\ wrec' = wrec
    /\ UNCHANGED << scan, maxConcurrent, ppc, cell, discoveredOnus, jobs, closed,
                    uniqueOnus, ctxDone, emitted, skipped, visited, probe,
                    discovered, issued, previous, calls >>

\* mutant of MapKey: the map is keyed by the device id alone
MapKeyByID(rec) == rec.ID

\* the key of a record in uniqueOnus: detailedOnu.SerialNumber
MapKey(rec) == rec.SerialNumber

\* uniqueOnus.Load(serial) and the decision that follows it
Load(w) ==
    /\ wpc[w] = "load"
    /\ ~crashed
    /\ LET k == MapKey(wrec[w])
           exists == k \in DOMAIN uniqueOnus
           existingOnu == IF exists THEN uniqueOnus[k] ELSE NoRecord
       IN  IF ShouldStore(exists, existingOnu, wrec[w])
           THEN /\ wpc' = [wpc EXCEPT ![w] = "store"]
                /\ wrec' = wrec
           ELSE /\ wpc' = [wpc EXCEPT ![w] = "recv"]
                /\ wrec' = [wrec EXCEPT ![w] = NoRecord]
    /\ UNCHANGED << scan, maxConcurrent, ppc, cell, discoveredOnus, jobs, closed,
                    wjob, uniqueOnus, ctxDone, crashed, emitted, outcome, skipped,
                    visited, probe,
                    discovered, issued, previous, calls >>

\* mutant of Store: the record is dropped instead of stored
StoreDropped(w) ==
    /\ wpc[w] = "store"
    /\ ~crashed
    /\ wpc' = [wpc EXCEPT ![w] = "recv"]
    /\ wrec' = [wrec EXCEPT ![w] = NoRecord]
    /\ UNCHANGED << scan, maxConcurrent, ppc, cell, discoveredOnus, jobs, closed,
                    wjob, uniqueOnus, ctxDone, crashed, emitted, outcome, skipped,
                    visited, probe, discovered, issued, previous, calls >>

\* uniqueOnus.Store(serial, detailedOnu)
Store(w) ==
    /\ wpc[w] = "store"
    /\ ~crashed
    /\ uniqueOnus' = (MapKey(wrec[w]) :> wrec[w]) @@ uniqueOnus
    /\ wpc' = [wpc EXCEPT ![w] = "recv"]
    /\ wrec' = [wrec EXCEPT ![w] = NoRecord]
    /\ UNCHANGED << scan, maxConcurrent, ppc, cell, discoveredOnus, jobs, closed,
                    wjob, ctxDone, crashed, emitted, outcome, skipped, visited, probe,
                    discovered, issued, previous, calls >>

Next ==
    \/ Collect
    \/ Discover
    \/ WalkReturn
    \/ Enqueue
    \/ CloseJobs
    \/ WgWait
    \/ Emit
    \/ DeadlineExpires
    \/ \E w \in Workers : WorkerRecv(w)
    \/ \E w \in Workers : WorkerExit(w)
    \/ \E w \in Workers : GetReturn(w)
    \/ \E w \in Workers : Load(w)
    \/ \E w \in Workers : Store(w)

Spec == Init /\ [][Next]_vars

\* scrape after scrape: when a call of Collect has returned, the next scrape
\* calls it again on the same collector
CyclesNext == Next \/ CollectAgain
CyclesSpec == Init /\ [][CyclesNext]_vars

\* scheduling: every goroutine that can take a step eventually takes it, and
\* every walk and get eventually returns; the timer gives no such guarantee
Fairness ==
    /\ WF_vars(Collect)
    /\ WF_vars(Discover)
    /\ WF_vars(WalkReturn)
    /\ WF_vars(Enqueue)
    /\ WF_vars(CloseJobs)
    /\ WF_vars(WgWait)
    /\ WF_vars(Emit)
    /\ \A w \in 1 .. MaxWorkers :
          /\ WF_vars(w \in Workers /\ WorkerRecv(w))
          /\ WF_vars(w \in Workers /\ WorkerExit(w))
          /\ WF_vars(w \in Workers /\ GetReturn(w))
          /\ WF_vars(w \in Workers /\ Load(w))
          /\ WF_vars(w \in Workers /\ Store(w))

FairSpec == Spec /\ Fairness

(* ------------------- the address resolver on its own ------------------- *)
\* getOltConfig is applied to one (boardID, ponID) and its result recorded
Resolve ==
    /\ \E b \in ProbeBoards, p \in ProbePons :
          LET r == getOltConfig(b, p)
          IN  probe' = [called |-> TRUE, boardID |-> b, ponID |-> p,
                        cfg |-> r.cfg, err |-> r.err]
    /\ UNCHANGED << scan, maxConcurrent, ppc, cell, discoveredOnus, jobs, closed,
                    wpc, wjob, wrec, uniqueOnus, ctxDone, crashed, emitted,
                    outcome, skipped, visited, discovered, issued, previous, calls >>

ResolveSpec == Init /\ [][Resolve]_vars

(* ------------------------------ vocabulary ------------------------------ *)
\* the cells of the configured board x port matrix
Matrix ==
    {<< b, p >> : b \in scan.boardMin .. scan.boardMax,
                  p \in scan.ponMin .. scan.ponMax}
\* the supported domain of the address resolver
Supported(b, p) == b \in {1, 2} /\ p \in 1 .. 16
\* the cycle is between the call of Collect and its return
Running == ppc \notin {"idle", "done"} /\ ~crashed
\* records fetched successfully in this cycle
Fetched == {outcome[j].rec : j \in {k \in DOMAIN outcome : outcome[k].st = "got"}}
\* the records held by the result set
Stored == {uniqueOnus[s] : s \in DOMAIN uniqueOnus}
\* the jobs whose fetch is over
Processed == {j \in DOMAIN outcome : outcome[j].st \in {"got", "error"}}
SameDevice(rec, job) ==
    rec.Board = job.Board /\ rec.PON = job.PON /\ rec.ID = job.ID

(* --------------------- texts and their conversions ---------------------- *)
\* A text that the code parses is a sequence of one-character strings, so
\* that parsing and formatting are computed and not assumed.
Digits == {"0", "1", "2", "3", "4", "5", "6", "7", "8", "9"}
DigitVal(c) ==
    CASE c = "0" -> 0 [] c = "1" -> 1 [] c = "2" -> 2 [] c = "3" -> 3
      [] c = "4" -> 4 [] c = "5" -> 5 [] c = "6" -> 6 [] c = "7" -> 7
      [] c = "8" -> 8 [] c = "9" -> 9
DigitChar(d) ==
    CASE d = 0 -> "0" [] d = 1 -> "1" [] d = 2 -> "2" [] d = 3 -> "3"
      [] d = 4 -> "4" [] d = 5 -> "5" [] d = 6 -> "6" [] d = 7 -> "7"
      [] d = 8 -> "8" [] d = 9 -> "9"
AllDigits(s) == \A i \in DOMAIN s : s[i] \in Digits

\* the value of a run of decimal digits (0 for the empty run)
RECURSIVE Atoi(_)
Atoi(s) ==
    IF s = << >> THEN 0
    ELSE 10 * Atoi(SubSeq(s, 1, Len(s) - 1)) + DigitVal(s[Len(s)])

\* strconv.Itoa for the non-negative integers
RECURSIVE Itoa(_)
Itoa(n) == IF n < 10 THEN << DigitChar(n) >>
           ELSE Itoa(n \div 10) \o << DigitChar(n % 10) >>

IsSpace(c) == c \in {" ", "\t", "\n", "\r"}

\* strings.TrimSpace
RECURSIVE TrimLeft(_)
TrimLeft(s) == IF s # << >> /\ IsSpace(s[1]) THEN TrimLeft(Tail(s)) ELSE s
RECURSIVE TrimRight(_)
TrimRight(s) ==
    IF s # << >> /\ IsSpace(s[Len(s)])
    THEN TrimRight(SubSeq(s, 1, Len(s) - 1)) ELSE s
TrimSpace(s) == TrimRight(TrimLeft(s))

\* A float64 is modelled by its class and, when finite, by sign, integer
\* part and hundredths; the texts the model is applied to have at most two
\* decimals.
Finite(neg, int, cents) ==
    [class |-> "finite", neg |-> neg, int |-> int, cents |-> cents]
NaN == [class |-> "nan", neg |-> FALSE, int |-> 0, cents |-> 0]
Inf(neg) == [class |-> "inf", neg |-> neg, int |-> 0, cents |-> 0]
\* the conversion float64(n) of an integer
Float64(n) == IF n < 0 THEN Finite(TRUE, 0 - n, 0) ELSE Finite(FALSE, n, 0)

\* strconv.ParseFloat(s, 64) on the decimal texts without exponent:
\* [sign] digits [. digits] | [sign] . digits | NaN | [sign] Inf
ParseFloat(s) ==
    LET signed == s # << >> /\ s[1] \in {"+", "-"}
        neg    == signed /\ s[1] = "-"
        body   == IF signed THEN Tail(s) ELSE s
        dots   == {i \in DOMAIN body : body[i] = "."}
        dot    == IF dots = {} THEN Len(body) + 1 ELSE CHOOSE i \in dots : TRUE
        int    == SubSeq(body, 1, dot - 1)
        frac   == SubSeq(body, dot + 1, Len(body))
        syntax == /\ Cardinality(dots) <= 1
                  /\ AllDigits(int) /\ AllDigits(frac)
                  /\ Len(int) + Len(frac) >= 1
                  /\ Len(frac) <= 2
        cents  == IF Len(frac) = 0 THEN 0
                  ELSE IF Len(frac) = 1 THEN 10 * Atoi(frac) ELSE Atoi(frac)
    IN  IF s = << "N", "a", "N" >> THEN [err |-> FALSE, f |-> NaN]
        ELSE IF body = << "I", "n", "f" >> THEN [err |-> FALSE, f |-> Inf(neg)]
        ELSE IF syntax
             THEN [err |-> FALSE, f |-> Finite(neg, Atoi(int), cents)]
             ELSE [err |-> TRUE, f |-> Float64(0)]

\* the comparison f < n of a float64 with a positive integer constant
LessThan(f, n) ==
    \/ f.class = "inf" /\ f.neg
    \/ f.class = "finite" /\ (f.neg \/ f.int < n)

\* regexp (\d+)\s*<unit>, FindStringSubmatch: the digits of the leftmost
\* match, or no match. A match starts at a digit, takes the whole run of
\* digits, then the whole run of white space, and then needs the unit word.
RunEnd(s, i, class) ==
    LET stops == {j \in i .. Len(s) : s[j] \notin class}
    IN  IF stops = {} THEN Len(s) + 1
        ELSE CHOOSE j \in stops : \A k \in stops : j <= k
\* the character class \s
RegexSpaces == {" ", "\t", "\n", "\r", "\f"}
FindStringSubmatch(s, unit) ==
    LET MatchAt(i) ==
            /\ s[i] \in Digits
            /\ LET d == RunEnd(s, i, Digits)
                   u == RunEnd(s, d, RegexSpaces)
               IN  /\ u + Len(unit) - 1 <= Len(s)
                   /\ SubSeq(s, u, u + Len(unit) - 1) = unit
        starts == {i \in DOMAIN s : MatchAt(i)}
    IN  IF starts = {} THEN [found |-> FALSE, digits |-> << >>]
        ELSE LET i == CHOOSE x \in starts : \A y \in starts : x <= y
             IN  [found |-> TRUE,
                  digits |-> SubSeq(s, i, RunEnd(s, i, Digits) - 1)]

UnitDays == << "d", "a", "y", "s" >>
UnitHours == << "h", "o", "u", "r", "s" >>
UnitMinutes == << "m", "i", "n", "u", "t", "e", "s" >>
UnitSeconds == << "s", "e", "c", "o", "n", "d", "s" >>

\* mutant of parseAndAddTime: a minus sign before the digits is honoured
parseAndAddTimeSigned(durationStr, unit, multiplier) ==
    LET matches == FindStringSubmatch(durationStr, unit)
        starts == {i \in 1 .. Len(durationStr) - Len(matches.digits) + 1 :
                      SubSeq(durationStr, i, i + Len(matches.digits) - 1) = matches.digits}
        first == CHOOSE i \in starts : \A k \in starts : i <= k
    IN  IF ~matches.found THEN 0
        ELSE IF first > 1 /\ durationStr[first - 1] = "-"
        THEN 0 - Atoi(matches.digits) * multiplier
        ELSE Atoi(matches.digits) * multiplier

\* parseAndAddTime of parseDurationStringToSeconds
parseAndAddTime(durationStr, unit, multiplier) ==
    LET matches == FindStringSubmatch(durationStr, unit)
    IN  IF matches.found THEN Atoi(matches.digits) * multiplier ELSE 0

parseDurationStringToSeconds(durationStr) ==
    Float64(parseAndAddTime(durationStr, UnitDays, 24 * 3600)
            + parseAndAddTime(durationStr, UnitHours, 3600)
            + parseAndAddTime(durationStr, UnitMinutes, 60)
            + parseAndAddTime(durationStr, UnitSeconds, 1))

\* time.Parse("2006-01-02 15:04:05", s) on texts of that exact shape: four
\* digits of year, two of month, day, hour, minute and second. The result
\* is the Unix time of the parsed instant (UTC).
IsLeap(y) == y % 4 = 0 /\ (y % 100 # 0 \/ y % 400 = 0)
daysIn(m, y) ==
    IF m = 2 THEN (IF IsLeap(y) THEN 29 ELSE 28)
    ELSE IF m \in {4, 6, 9, 11} THEN 30 ELSE 31
\* days between 1970-01-01 and the civil date y-m-d
DaysFromCivil(y, m, d) ==
    LET yy  == IF m <= 2 THEN y - 1 ELSE y
        era == yy \div 400
        yoe == yy - era * 400
        mp  == IF m > 2 THEN m - 3 ELSE m + 9
        doy == (153 * mp + 2) \div 5 + d - 1
        doe == yoe * 365 + yoe \div 4 - yoe \div 100 + doy
    IN  era * 146097 + doe - 719468
TimeParseError == [err |-> TRUE, unix |-> 0]
timeParse(s) ==
    IF \/ Len(s) # 19
       \/ \E i \in {5, 8} : s[i] # "-"
       \/ s[11] # " "
       \/ \E i \in {14, 17} : s[i] # ":"
       \/ \E i \in (1 .. 19) \ {5, 8, 11, 14, 17} : s[i] \notin Digits
    THEN TimeParseError
    ELSE LET y  == Atoi(SubSeq(s, 1, 4))
             m  == Atoi(SubSeq(s, 6, 7))
             d  == Atoi(SubSeq(s, 9, 10))
             h  == Atoi(SubSeq(s, 12, 13))
             mi == Atoi(SubSeq(s, 15, 16))
             sc == Atoi(SubSeq(s, 18, 19))
         IN  IF \/ m < 1 \/ m > 12
                \/ d < 1 \/ d > daysIn(m, y)
                \/ h > 23 \/ mi > 59 \/ sc > 59
             THEN TimeParseError
             ELSE [err |-> FALSE,
                   unix |-> DaysFromCivil(y, m, d) * 86400
                            + h * 3600 + mi * 60 + sc]

\* mutant of parseTimestampStringToEpoch: an unknown timestamp is reported
\* as -1 instead of 0
parseTimestampStringToEpochMinusOne(timestampStr) ==
    LET t == timeParse(TrimSpace(timestampStr))
    IN  IF TrimSpace(timestampStr) = << >> \/ t.err
        THEN Float64(-1) ELSE Float64(t.unix)

parseTimestampStringToEpoch(timestampStr) ==
    LET trimmed == TrimSpace(timestampStr)
        t       == timeParse(trimmed)
    IN  IF trimmed = << >> THEN Float64(0)
        ELSE IF t.err THEN Float64(0)
        ELSE Float64(t.unix)

\* strconv.Itoa for every integer
ItoaSigned(n) == IF n < 0 THEN << "-" >> \o Itoa(0 - n) ELSE Itoa(n)
\* Go's truncated division and remainder
Quo(a, b) == IF a < 0 THEN 0 - ((0 - a) \div b) ELSE a \div b
Rem(a, b) == a - b * Quo(a, b)

\* utils.ConvertDurationToString on a duration in whole seconds:
\* "<d> days <h> hours <m> minutes <s> seconds"
ConvertDurationToString(duration) ==
    ItoaSigned(Quo(duration, 86400)) \o << " " >> \o UnitDays \o << " " >>
    \o ItoaSigned(Rem(Quo(duration, 3600), 24)) \o << " " >> \o UnitHours \o << " " >>
    \o ItoaSigned(Rem(Quo(duration, 60), 60)) \o << " " >> \o UnitMinutes \o << " " >>
    \o ItoaSigned(Rem(duration, 60)) \o << " " >> \o UnitSeconds

\* getUptimeDuration: now - lastOnline + 7 hours, as a text
getUptimeDuration(lastOnline, now) ==
    LET t == timeParse(lastOnline)
    IN  IF t.err THEN [text |-> << >>, err |-> TRUE]
        ELSE [text |-> ConvertDurationToString(now - t.unix + 7 * 3600),
              err |-> FALSE]

\* mutant of getLastDownDuration: the error of the first time.Parse is
\* dropped and the epoch taken for the last-offline instant
getLastDownDurationFromEpoch(lastOffline, lastOnline) ==
    LET off == timeParse(lastOffline)
        on  == timeParse(lastOnline)
    IN  IF on.err THEN [text |-> << >>, err |-> TRUE]
        ELSE [text |-> ConvertDurationToString(on.unix - off.unix),
              err |-> FALSE]

\* getLastDownDuration: lastOnline - lastOffline, as a text
getLastDownDuration(lastOffline, lastOnline) ==
    LET off == timeParse(lastOffline)
        on  == timeParse(lastOnline)
    IN  IF off.err \/ on.err THEN [text |-> << >>, err |-> TRUE]
        ELSE [text |-> ConvertDurationToString(on.unix - off.unix),
              err |-> FALSE]

(* ------------------ one device: detail fetch and emission --------------- *)
\* the decoded attributes of model.ONUCustomerInfo beyond those of Record
ZeroAttributes ==
    [Name |-> "", OnuType |-> "", IPAddress |-> "", Description |-> "",
     LastOfflineReason |-> "", RXPower |-> << >>, TXPower |-> << >>,
     GponOpticalDistance |-> << >>, LastOnline |-> << >>,
     LastOffline |-> << >>, Uptime |-> << >>, LastDownTimeDuration |-> << >>]
\* model.ONUCustomerInfo{}
ZeroCustomerInfo == NoRecord @@ ZeroAttributes

\* case oidLastOnline / oidLastOffline: the field after the pdu was handled;
\* raw = [kind, text, err] is the pdu value and what the date-time decoder
\* makes of it
TimestampField(raw) ==
    IF raw.kind = "bytes" /\ ~raw.err THEN raw.text ELSE << >>

\* the loop over result.Variables: the record after every pdu was handled
DecodedInfo(job, resp) ==
    Record(job, resp.serial, resp.status)
    @@ [Name |-> resp.name, OnuType |-> resp.onuType,
        IPAddress |-> resp.ip, Description |-> resp.description,
        LastOfflineReason |-> resp.reason,
        RXPower |-> resp.rx, TXPower |-> resp.tx,
        GponOpticalDistance |-> resp.distance,
        LastOnline |-> TimestampField(resp.lastOnline),
        LastOffline |-> TimestampField(resp.lastOffline),
        Uptime |-> << >>, LastDownTimeDuration |-> << >>]

\* "Calculate uptime and downtime if possible."
DeriveDurations(onuInfo, now) ==
    LET up   == getUptimeDuration(onuInfo.LastOnline, now)
        down == getLastDownDuration(onuInfo.LastOffline, onuInfo.LastOnline)
    IN  [onuInfo EXCEPT
            !.Uptime = IF onuInfo.LastOnline # << >> /\ ~up.err
                       THEN up.text ELSE @,
            !.LastDownTimeDuration =
                       IF /\ onuInfo.LastOnline # << >>
                          /\ onuInfo.LastOffline # << >>
                          /\ ~down.err
                       THEN down.text ELSE @]

\* GetByBoardIDPonIDAndOnuID as a function of the transport's answer
FetchDetail(job, getErr, resp, now) ==
    LET oltConfig == getOltConfig(job.Board, job.PON)
    IN  IF oltConfig.err # ErrNil
        THEN [rec |-> ZeroCustomerInfo, err |-> oltConfig.err, panicked |-> FALSE]
        ELSE IF oltConfig.cfg = NilPtr
        THEN [rec |-> ZeroCustomerInfo, err |-> ErrNil, panicked |-> TRUE]
        ELSE IF getErr # ErrNil
        THEN [rec |-> ZeroCustomerInfo, err |-> getErr, panicked |-> FALSE]
        ELSE IF \/ AssertBytesPanics(resp.lastOnline.kind)
                \/ AssertBytesPanics(resp.lastOffline.kind)
        THEN [rec |-> ZeroCustomerInfo, err |-> ErrNil, panicked |-> TRUE]
        ELSE [rec |-> DeriveDurations(DecodedInfo(job, resp), now),
              err |-> ErrNil, panicked |-> FALSE]

\* an address: base prefix + attribute sub-address + "." + device id, with
\* the instance suffix ".1" where the code appends it
Address(base, attr, sOnuID, suffix) ==
    [base |-> base, attr |-> attr, id |-> sOnuID, suffix |-> suffix]
\* u.cfg.OltCfg.BaseOID2
BaseOID2 == << "OltCfg", "BaseOID2" >>

\* oids := []string{oidName, ..., oidGponOpticalDistance}
DetailOIDs(c, onuID) ==
    LET sOnuID == Itoa(onuID)
    IN  << Address(c.BaseOID, c.OnuIDNameOID, sOnuID, ""),
           Address(BaseOID2, c.OnuTypeOID, sOnuID, ""),
           Address(c.BaseOID, c.OnuSerialNumberOID, sOnuID, ""),
           Address(c.BaseOID, c.OnuRxPowerOID, sOnuID, ".1"),
           Address(BaseOID2, c.OnuTxPowerOID, sOnuID, ".1"),
           Address(c.BaseOID, c.OnuStatusOID, sOnuID, ""),
           Address(BaseOID2, c.OnuIPAddressOID, sOnuID, ".1"),
           Address(c.BaseOID, c.OnuDescriptionOID, sOnuID, ""),
           Address(c.BaseOID, c.OnuLastOnlineOID, sOnuID, ""),
           Address(c.BaseOID, c.OnuLastOfflineOID, sOnuID, ""),
           Address(c.BaseOID, c.OnuLastOfflineReasonOID, sOnuID, ""),
           Address(c.BaseOID, c.OnuGponOpticalDistanceOID, sOnuID, "") >>

\* mutant of FetchRequests: one round trip per attribute
FetchRequestsPerAttribute(job) ==
    LET oltConfig == getOltConfig(job.Board, job.PON)
    IN  IF oltConfig.err # ErrNil \/ oltConfig.cfg = NilPtr THEN << >>
        ELSE LET oids == DetailOIDs(oltConfig.cfg[1], job.ID)
             IN  [i \in DOMAIN oids |-> << oids[i] >>]

\* the calls of snmpRepository.Get made by GetByBoardIDPonIDAndOnuID, each
\* with its list of addresses: none when getOltConfig fails or the nil
\* config is dereferenced, else the one call with the twelve addresses
FetchRequests(job) ==
    LET oltConfig == getOltConfig(job.Board, job.PON)
    IN  IF oltConfig.err # ErrNil \/ oltConfig.cfg = NilPtr THEN << >>
        ELSE << DetailOIDs(oltConfig.cfg[1], job.ID) >>

\* mutant of ConstMetric: the label values are not passed on
ConstMetricUnlabelled(desc, value, labels) ==
    [desc |-> desc, value |-> value, labels |-> << >>]

\* prometheus.MustNewConstMetric(desc, GaugeValue, value, labels...)
ConstMetric(desc, value, labels) ==
    [desc |-> desc, value |-> value, labels |-> labels]

\* mutant of PowerMetrics: the status of the device is not looked at
PowerMetricsAnyStatus(desc, status, reading, serial) ==
    LET p == ParseFloat(reading)
    IN  IF ~p.err /\ LessThan(p.f, 100)
        THEN << ConstMetric(desc, p.f, << serial >>) >> ELSE << >>

\* "Set power metrics only if the device is Online": the series sent for
\* one of the two readings
PowerMetrics(desc, status, reading, serial) ==
    LET p == ParseFloat(reading)
    IN  IF status = "Online" /\ ~p.err /\ LessThan(p.f, 100)
        THEN << ConstMetric(desc, p.f, << serial >>) >> ELSE << >>

\* sendMetrics: the series sent on the channel for one record, in order
sendMetrics(detailedOnu) ==
    LET serial   == detailedOnu.SerialNumber
        distance == ParseFloat(detailedOnu.GponOpticalDistance)
    IN  << ConstMetric("OnuMappingInfoGaugeDesc", Float64(1),
                       << Itoa(detailedOnu.Board), Itoa(detailedOnu.PON),
                          Itoa(detailedOnu.ID), detailedOnu.Name, serial,
                          detailedOnu.OnuType, detailedOnu.Description,
                          detailedOnu.LastOfflineReason,
                          detailedOnu.IPAddress >>),
           ConstMetric("OnuStatusGaugeDesc",
                       Float64(mapStatusToNumeric(detailedOnu.Status)),
                       << serial >>) >>
        \o PowerMetrics("OnuRxPowerGaugeDesc", detailedOnu.Status,
                        detailedOnu.RXPower, serial)
        \o PowerMetrics("OnuTxPowerGaugeDesc", detailedOnu.Status,
                        detailedOnu.TXPower, serial)
        \o << ConstMetric("OnuUptimeGaugeDesc",
                          parseDurationStringToSeconds(detailedOnu.Uptime),
                          << serial >>),
              ConstMetric("OnuLastDownDurationGaugeDesc",
                          parseDurationStringToSeconds(
                              detailedOnu.LastDownTimeDuration),
                          << serial >>),
              ConstMetric("OnuLastOnlineGaugeDesc",
                          parseTimestampStringToEpoch(detailedOnu.LastOnline),
                          << serial >>),
              ConstMetric("OnuLastOfflineGaugeDesc",
                          parseTimestampStringToEpoch(detailedOnu.LastOffline),
                          << serial >>) >>
        \o (IF ~distance.err
            THEN << ConstMetric("OnuGponOpticalDistanceGaugeDesc", distance.f,
                                << serial >>) >>
            ELSE << >>)

\* the text "YYYY-MM-DD hh:mm:ss" of a date and time
Pad2(n) == IF n < 10 THEN << "0" >> \o Itoa(n) ELSE Itoa(n)
Pad4(n) == IF n < 1000 THEN << "0", "0" >> \o Pad2(n) ELSE Itoa(n)
Stamp(y, m, d, h, mi, s) ==
    Pad4(y) \o << "-" >> \o Pad2(m) \o << "-" >> \o Pad2(d) \o << " " >>
    \o Pad2(h) \o << ":" >> \o Pad2(mi) \o << ":" >> \o Pad2(s)

\* what the transport may return for a timestamp address and what the
\* date-time decoder makes of it: no value, a value that is not a byte
\* string, bytes the decoder rejects, and bytes decoded to a text (two
\* dates, a date padded with a blank, the all-zero date of a device that
\* never saw the event)
RawTimestamps ==
    {[kind |-> "nil", err |-> FALSE, text |-> << >>],
     [kind |-> "other", err |-> FALSE, text |-> << >>],
     [kind |-> "bytes", err |-> TRUE, text |-> << >>],
     [kind |-> "bytes", err |-> FALSE, text |-> Stamp(2024, 3, 1, 0, 0, 0)],
     [kind |-> "bytes", err |-> FALSE, text |-> Stamp(2024, 2, 28, 12, 30, 15)],
     [kind |-> "bytes", err |-> FALSE,
      text |-> Stamp(2024, 2, 28, 12, 30, 15) \o << " " >>],
     [kind |-> "bytes", err |-> FALSE, text |-> Stamp(0, 0, 0, 0, 0, 0)]}
\* status texts of a record
StatusTexts == {"Online", "Dying Gasp", "LOS", "Power-Off", "Unknown", ""}
\* power readings: -21.50, 99.99, 100, 250.5, no text, NaN
RxTexts ==
    {<< "-", "2", "1", ".", "5", "0" >>, << "9", "9", ".", "9", "9" >>,
     << "1", "0", "0" >>, << "2", "5", "0", ".", "5" >>, << >>,
     << "N", "a", "N" >>}
\* power readings: 2.5, 100, N/A
TxTexts == {<< "2", ".", "5" >>, << "1", "0", "0" >>, << "N", "/", "A" >>}
\* optical distances: 1234, no text
DistanceTexts == {<< "1", "2", "3", "4" >>, << >>}
\* the decoded answers of the transport to one detail request
Responses ==
    [serial : {"", "ABC123"}, status : StatusTexts, rx : RxTexts,
     tx : TxTexts, distance : DistanceTexts, lastOnline : RawTimestamps,
     lastOffline : RawTimestamps, name : {"cust"}, onuType : {"F660"},
     ip : {"10.0.0.1"}, description : {"desc"}, reason : {"PowerOff"}]
NoResponse ==
    [serial |-> "", status |-> "", rx |-> << >>, tx |-> << >>,
     distance |-> << >>,
     lastOnline |-> [kind |-> "nil", err |-> FALSE, text |-> << >>],
     lastOffline |-> [kind |-> "nil", err |-> FALSE, text |-> << >>],
     name |-> "", onuType |-> "", ip |-> "", description |-> "",
     reason |-> ""]
\* the devices asked for, and the instants of the request (Unix seconds of
\* 2024-03-02 01:02:03 UTC)
ProbeJobs == {Job(1, 16, 3), Job(2, 17, 5), Job(3, 16, 3)}
Nows == {DaysFromCivil(2024, 3, 2) * 86400 + 3723}

\* One device on its way through a cycle that discovered only this device:
\* the worker fetches the detail, drops it on an error or an empty serial
\* number, stores it in the empty map, and Collect sends its series.
CollectOne ==
    /\ probe = NoProbe
    /\ \E job \in ProbeJobs, getErr \in {ErrNil, "timeout"},
          resp \in Responses \cup {NoResponse}, now \in Nows :
          /\ (getErr # ErrNil \/ ~Supported(job.Board, job.PON))
                <=> resp = NoResponse
          /\ LET r    == FetchDetail(job, getErr, resp, now)
                 kept == /\ ~r.panicked
                         /\ r.err = ErrNil
                         /\ HasSerial(r.rec)
                         /\ ShouldStore(FALSE, NoRecord, r.rec)
             IN  probe' = [called |-> TRUE, job |-> job, getErr |-> getErr,
                           resp |-> resp, now |-> now, rec |-> r.rec,
                           gets |-> FetchRequests(job),
                           err |-> r.err, panicked |-> r.panicked,
                           sent |-> kept,
                           series |-> IF kept THEN sendMetrics(r.rec)
                                      ELSE << >>]
    /\ UNCHANGED << scan, maxConcurrent, ppc, cell, discoveredOnus, jobs, closed,
                    wpc, wjob, wrec, uniqueOnus, ctxDone, crashed, emitted,
                    outcome, skipped, visited, discovered, issued, previous, calls >>

DeviceSpec == Init /\ [][CollectOne]_vars

(* ------------------ the decode loop over a response --------------------- *)
\* the field of model.ONUCustomerInfo that the switch sets for the i-th of
\* the twelve addresses (the cases in the order of oids)
FieldOf ==
    << "Name", "OnuType", "SerialNumber", "RXPower", "TXPower", "Status",
       "IPAddress", "Description", "LastOnline", "LastOffline",
       "LastOfflineReason", "GponOpticalDistance" >>
\* the fields set by the two timestamp cases
TimestampFields == {"LastOnline", "LastOffline"}

\* mutant of DecodePdu: a pdu whose address matches no case is taken for the
\* description
DecodePduWithDefault(onuInfo, oids, pdu) ==
    LET cases == {i \in DOMAIN oids : oids[i] = pdu.name}
    IN  IF cases = {}
        THEN [rec |-> [onuInfo EXCEPT !.Description = "unmatched"],
              panicked |-> FALSE]
        ELSE LET i     == CHOOSE c \in cases : \A d \in cases : c <= d
                 field == FieldOf[i]
             IN  IF field \notin TimestampFields
                 THEN [rec |-> [onuInfo EXCEPT ![field] = pdu.value],
                       panicked |-> FALSE]
                 ELSE IF pdu.value.kind = "nil"
                 THEN [rec |-> onuInfo, panicked |-> FALSE]
                 ELSE IF AssertBytesPanics(pdu.value.kind)
                 THEN [rec |-> onuInfo, panicked |-> TRUE]
                 ELSE IF ~pdu.value.err
                 THEN [rec |-> [onuInfo EXCEPT ![field] = pdu.value.text],
                       panicked |-> FALSE]
                 ELSE [rec |-> onuInfo, panicked |-> FALSE]

\* switch pdu.Name { ... }: the first case whose address equals the name of
\* the pdu sets its field to the decoded value; the timestamp cases set it
\* only for a non-nil byte string the decoder accepts; no case, no effect
DecodePdu(onuInfo, oids, pdu) ==
    LET cases == {i \in DOMAIN oids : oids[i] = pdu.name}
    IN  IF cases = {} THEN [rec |-> onuInfo, panicked |-> FALSE]
        ELSE LET i     == CHOOSE c \in cases : \A d \in cases : c <= d
                 field == FieldOf[i]
             IN  IF field \notin TimestampFields
                 THEN [rec |-> [onuInfo EXCEPT ![field] = pdu.value],
                       panicked |-> FALSE]
                 ELSE IF pdu.value.kind = "nil"
                 THEN [rec |-> onuInfo, panicked |-> FALSE]
                 ELSE IF AssertBytesPanics(pdu.value.kind)
                 THEN [rec |-> onuInfo, panicked |-> TRUE]
                 ELSE IF ~pdu.value.err
                 THEN [rec |-> [onuInfo EXCEPT ![field] = pdu.value.text],
                       panicked |-> FALSE]
                 ELSE [rec |-> onuInfo, panicked |-> FALSE]

\* for _, pdu := range result.Variables { ... }
RECURSIVE DecodeVariables(_, _, _)
DecodeVariables(onuInfo, oids, variables) ==
    IF variables = << >> THEN [rec |-> onuInfo, panicked |-> FALSE]
    ELSE LET step == DecodePdu(onuInfo, oids, Head(variables))
         IN  IF step.panicked THEN step
             ELSE DecodeVariables(step.rec, oids, Tail(variables))

\* onuInfo := model.ONUCustomerInfo{Board: boardID, PON: ponID, ID: onuID}
InitialInfo(job) == Record(job, "", "") @@ ZeroAttributes

\* a pdu of a response: the address it answers and its value as the value
\* decoders of the utils package return it (for a timestamp: the raw value
\* and what the date-time decoder makes of it)
Pdu(name, value) == [name |-> name, value |-> value]
\* the device whose response is decoded, and its twelve addresses
DecodedJob == Job(1, 16, 3)
DecodedOIDs == DetailOIDs(getOltConfig(1, 16).cfg[1], 3)
\* pdus a response may hold: two different names for the name address, a
\* serial number, a status, three values for the last-online address (a
\* date, rejected bytes, no value), one for the last-offline address, and a
\* pdu of an address that was not asked for
PduPool ==
    << Pdu(DecodedOIDs[1], "cust"),
       Pdu(DecodedOIDs[1], "other"),
       Pdu(DecodedOIDs[3], "ABC123"),
       Pdu(DecodedOIDs[6], "Online"),
       Pdu(DecodedOIDs[9], [kind |-> "bytes", err |-> FALSE,
                            text |-> Stamp(2024, 3, 1, 0, 0, 0)]),
       Pdu(DecodedOIDs[9], [kind |-> "bytes", err |-> TRUE, text |-> << >>]),
       Pdu(DecodedOIDs[9], [kind |-> "nil", err |-> FALSE, text |-> << >>]),
       Pdu(DecodedOIDs[10], [kind |-> "other", err |-> FALSE, text |-> << >>]),
       Pdu(Address(BaseOID2, << 1, 16, "OnuTypeOID" >>, << "4" >>, ""),
           "F660") >>

Injective(f) == \A i, j \in DOMAIN f : f[i] = f[j] => i = j

\* A response is decoded on its own: any list of up to MaxPairs different
\* pdus of the pool, in any order.
Decode ==
    /\ probe = NoProbe
    /\ \E n \in 0 .. MaxPairs :
          \E pick \in [1 .. n -> DOMAIN PduPool] :
              /\ Injective(pick)
              /\ LET variables == [i \in 1 .. n |-> PduPool[pick[i]]]
                     r == DecodeVariables(InitialInfo(DecodedJob), DecodedOIDs,
                                          variables)
                 IN  probe' = [called |-> TRUE, pick |-> pick,
                               variables |-> variables, rec |-> r.rec,
                               panicked |-> r.panicked]
    /\ UNCHANGED << scan, maxConcurrent, ppc, cell, discoveredOnus, jobs, closed,
                    wpc, wjob, wrec, uniqueOnus, ctxDone, crashed, emitted,
                    outcome, skipped, visited, discovered, issued, previous, calls >>

DecodeSpec == Init /\ [][Decode]_vars

(* ---------------------- discovery of one (board, port) ----------------- *)
\* the name of a pdu visited by the walk: the walked prefix and, as a text,
\* the device id that ends the name
WalkedName(prefix, id) == [prefix |-> prefix, id |-> Itoa(id)]
\* utils.ExtractONUID(pdu.Name): the device id as a text, the key of the map
ExtractONUID(name) == name.id
\* utils.ExtractIDOnuID(pdu.Name): the device id as a number
ExtractIDOnuID(name) == Atoi(name.id)

\* snmpDataMap[utils.ExtractONUID(pdu.Name)] = pdu, for every pdu the walk
\* visits, in the order of the walk
RECURSIVE WalkIntoMap(_, _)
WalkIntoMap(snmpDataMap, visitedPdus) ==
    IF visitedPdus = << >> THEN snmpDataMap
    ELSE LET pdu == Head(visitedPdus)
             key == ExtractONUID(pdu.name)
         IN  WalkIntoMap([k \in DOMAIN snmpDataMap \cup {key} |->
                             IF k = key THEN pdu ELSE snmpDataMap[k]],
                         Tail(visitedPdus))

\* model.ONUInfoPerBoard{Board, PON, ID, Name} built from one pdu
Summary(boardID, ponID, pdu) ==
    Job(boardID, ponID, ExtractIDOnuID(pdu.name)) @@ [Name |-> pdu.value]

\* mutant of SortByID: the list is returned in the order of the map
SortByIDMissing(list) == list

\* sort.Slice(onuInformationList, func(i, j) { return list[i].ID < list[j].ID })
\* (the place of an element in the sorted list is the number of elements
\* that come before it or are it; elements of equal ID keep their order;
\* \o << >> only makes TLC build the sequence once)
SortByID(list) ==
    LET l == list \o << >>
        place == [i \in DOMAIN l |->
                     Cardinality({j \in DOMAIN l :
                                     \/ l[j].ID < l[i].ID
                                     \/ (l[j].ID = l[i].ID /\ j <= i)})] \o << >>
    IN  [k \in DOMAIN l |-> l[CHOOSE i \in DOMAIN l : place[i] = k]]

\* GetByBoardIDAndPonID as a function of what the walk visits, of its
\* error, and of the order in which range yields the entries of the map
\* (keyOrder: the keys of the map, each once); walks counts the calls of
\* snmpRepository.Walk
GetByBoardIDAndPonID(boardID, ponID, visitedPdus, walkErr, keyOrder) ==
    LET oltConfig   == getOltConfig(boardID, ponID)
        snmpDataMap == WalkIntoMap(<< >>, visitedPdus)
        unsorted    == [i \in DOMAIN keyOrder |->
                           Summary(boardID, ponID, snmpDataMap[keyOrder[i]])]
    IN  IF oltConfig.err # ErrNil
        THEN [list |-> << >>, err |-> oltConfig.err, walks |-> 0,
              panicked |-> FALSE]
        ELSE IF oltConfig.cfg = NilPtr
        THEN [list |-> << >>, err |-> ErrNil, walks |-> 0, panicked |-> TRUE]
        ELSE IF walkErr # ErrNil
        THEN [list |-> << >>, err |-> walkErr, walks |-> 1, panicked |-> FALSE]
        ELSE [list |-> SortByID(unsorted), err |-> ErrNil, walks |-> 1,
              panicked |-> FALSE]

\* the (board, port) pairs discovered on their own
WalkedCells == {<< 1, 16 >>, << 2, 1 >>, << 3, 16 >>, << 1, 17 >>}
\* the pdus a walk of (b, p) may visit: devices 3, 5 and 12, device 3 under
\* two names
WalkedPdus(b, p) ==
    LET prefix == << << "OltCfg", "BaseOID1" >>, << b, p, "OnuIDNameOID" >> >>
    IN  << Pdu(WalkedName(prefix, 3), "cust-a"),
           Pdu(WalkedName(prefix, 3), "cust-b"),
           Pdu(WalkedName(prefix, 5), "cust-c"),
           Pdu(WalkedName(prefix, 12), "cust-d") >>

\* One (board, port) is discovered on its own: the walk visits up to
\* MaxVisited pdus and succeeds or fails; range yields the map in any order.
DiscoverOne ==
    /\ probe = NoProbe
    /\ \E c \in WalkedCells, walkErr \in {ErrNil, "walk failed"},
          n \in 0 .. MaxVisited :
          \E pick \in [1 .. n -> DOMAIN WalkedPdus(c[1], c[2])] :
              LET visitedPdus == [i \in 1 .. n |-> WalkedPdus(c[1], c[2])[pick[i]]]
                  keys == DOMAIN WalkIntoMap(<< >>, visitedPdus)
              IN  \E keyOrder \in [1 .. Cardinality(keys) -> keys] :
                      /\ Injective(keyOrder)
                      /\ (walkErr # ErrNil \/ ~Supported(c[1], c[2]))
                            => \A i \in DOMAIN keyOrder :
                                  \A j \in DOMAIN keyOrder :
                                      i < j => Atoi(keyOrder[i]) < Atoi(keyOrder[j])
                      /\ LET r == GetByBoardIDAndPonID(c[1], c[2], visitedPdus,
                                                       walkErr, keyOrder)
                         IN  probe' = [called |-> TRUE, boardID |-> c[1],
                                       ponID |-> c[2], walkErr |-> walkErr,
                                       visitedPdus |-> visitedPdus,
                                       keyOrder |-> keyOrder, list |-> r.list,
                                       err |-> r.err, walks |-> r.walks,
                                       panicked |-> r.panicked]
    /\ UNCHANGED << scan, maxConcurrent, ppc, cell, discoveredOnus, jobs, closed,
                    wpc, wjob, wrec, uniqueOnus, ctxDone, crashed, emitted,
                    outcome, skipped, visited, discovered, issued, previous, calls >>

WalkSpec == Init /\ [][DiscoverOne]_vars

(* --------------------- the paginated listing of a port ----------------- *)
\* model.ONUInfoPerBoard{Board, PON, ID} with the detail fields still empty
PageEntry(boardID, ponID, id) ==
    Job(boardID, ponID, id)
    @@ [Name |-> "", OnuType |-> "", SerialNumber |-> "", RXPower |-> << >>,
        Status |-> ""]
\* the entry after the detail fetch: the five fields are copied only when
\* the fetch returned no error
WithDetails(entry, fetch) ==
    IF fetch.err = ErrNil
    THEN [entry EXCEPT !.Name = fetch.rec.Name,
                       !.OnuType = fetch.rec.OnuType,
                       !.SerialNumber = fetch.rec.SerialNumber,
                       !.RXPower = fetch.rec.RXPower,
                       !.Status = fetch.rec.Status]
    ELSE entry
\* s[low:high] of a slice of length n panics unless 0 <= low <= high <= cap
\* (high is at most n here)
SlicePanics(low, high, n) == low < 0 \/ low > high \/ high > n

\* GetByBoardIDAndPonIDWithPagination as a function of what the walk visits,
\* of its error, and of the results of the detail fetches (fetches[i] is the
\* result for the i-th visited pdu, were it fetched)
GetByBoardIDAndPonIDWithPagination(boardID, ponID, pageIndex, pageSize, visitedPdus, walkErr, fetches) ==
    LET oltConfig == getOltConfig(boardID, ponID)
        onlyOnuIDList == [i \in DOMAIN visitedPdus |->
                             ExtractIDOnuID(visitedPdus[i].name)]
        count == Len(onlyOnuIDList)
        startIndex == (pageIndex - 1) * pageSize
        endIndex == IF startIndex + pageSize > count
                    THEN count ELSE startIndex + pageSize
        onuInformationList ==
            [k \in 1 .. endIndex - startIndex |->
                WithDetails(PageEntry(boardID, ponID, onlyOnuIDList[startIndex + k]),
                            fetches[startIndex + k])]
    IN  IF oltConfig.err # ErrNil
        THEN [list |-> << >>, count |-> 0, panicked |-> FALSE]
        ELSE IF oltConfig.cfg = NilPtr
        THEN [list |-> << >>, count |-> 0, panicked |-> TRUE]
        ELSE IF walkErr # ErrNil
        THEN [list |-> << >>, count |-> 0, panicked |-> FALSE]
        ELSE IF SlicePanics(startIndex, endIndex, count)
        THEN [list |-> << >>, count |-> 0, panicked |-> TRUE]
        ELSE IF \E k \in startIndex + 1 .. endIndex : fetches[k].panicked
        THEN [list |-> << >>, count |-> 0, panicked |-> TRUE]
        ELSE [list |-> SortByID(onuInformationList), count |-> count,
              panicked |-> FALSE]

\* the answer of the device to every detail request of the listing
PageResponse ==
    [serial |-> "ABC123", status |-> "Online",
     rx |-> << "-", "2", "1", ".", "5", "0" >>, tx |-> << "2", ".", "5" >>,
     distance |-> << "1", "2", "3", "4" >>,
     lastOnline |-> [kind |-> "nil", err |-> FALSE, text |-> << >>],
     lastOffline |-> [kind |-> "nil", err |-> FALSE, text |-> << >>],
     name |-> "cust", onuType |-> "F660", ip |-> "10.0.0.1",
     description |-> "desc", reason |-> "PowerOff"]

\* One page of one (board, port) is asked for: the walk visits up to
\* MaxVisited pdus and succeeds or fails, and each detail fetch succeeds or
\* times out.
PageOne ==
    /\ probe = NoProbe
    /\ \E c \in WalkedCells, walkErr \in {ErrNil, "walk failed"},
          n \in 0 .. MaxVisited, pageIndex \in 1 .. MaxPage,
          pageSize \in 1 .. MaxPage :
          \E pick \in [1 .. n -> DOMAIN WalkedPdus(c[1], c[2])],
             getErrs \in [1 .. n -> {ErrNil, "timeout"}] :
              LET visitedPdus == [i \in 1 .. n |-> WalkedPdus(c[1], c[2])[pick[i]]]
                  fetches == [i \in 1 .. n |->
                      FetchDetail(Job(c[1], c[2], ExtractIDOnuID(visitedPdus[i].name)),
                                  getErrs[i],
                                  IF getErrs[i] = ErrNil THEN PageResponse
                                  ELSE NoResponse,
                                  CHOOSE now \in Nows : TRUE)]
                  r == GetByBoardIDAndPonIDWithPagination(
                           c[1], c[2], pageIndex, pageSize, visitedPdus,
                           walkErr, fetches)
              IN  /\ (walkErr # ErrNil \/ ~Supported(c[1], c[2]))
                        => \A i \in 1 .. n : getErrs[i] = ErrNil
                  /\ probe' = [called |-> TRUE, boardID |-> c[1], ponID |-> c[2],
                               pageIndex |-> pageIndex, pageSize |-> pageSize,
                               walkErr |-> walkErr, visitedPdus |-> visitedPdus,
                               getErrs |-> getErrs, list |-> r.list,
                               count |-> r.count, panicked |-> r.panicked]
    /\ UNCHANGED << scan, maxConcurrent, ppc, cell, discoveredOnus, jobs, closed,
                    wpc, wjob, wrec, uniqueOnus, ctxDone, crashed, emitted,
                    outcome, skipped, visited, discovered, issued, previous, calls >>

PageSpec == Init /\ [][PageOne]_vars

(* ----------------------- the free device ids of a port ----------------- *)
\* for i := 1; i <= 128; i++
MaxOnuID == 128

\* the loop over 1..128: the numbers that are no key of numbersToRemove, in
\* the order of the loop
FreeIDs(numbersToRemove) ==
    SelectSeq([i \in 1 .. MaxOnuID |-> i], LAMBDA i : i \notin numbersToRemove)

\* GetEmptyOnuID as a function of what the walk visits and of its error
GetEmptyOnuID(boardID, ponID, visitedPdus, walkErr) ==
    LET oltConfig == getOltConfig(boardID, ponID)
        numbersToRemove == {ExtractIDOnuID(visitedPdus[i].name) :
                               i \in DOMAIN visitedPdus}
        free == FreeIDs(numbersToRemove)
        emptyOnuIDList == [k \in DOMAIN free |-> Job(boardID, ponID, free[k])]
    IN  IF oltConfig.err # ErrNil
        THEN [list |-> << >>, err |-> oltConfig.err, panicked |-> FALSE]
        ELSE IF oltConfig.cfg = NilPtr
        THEN [list |-> << >>, err |-> ErrNil, panicked |-> TRUE]
        ELSE IF walkErr # ErrNil
        THEN [list |-> << >>, err |-> walkErr, panicked |-> FALSE]
        ELSE [list |-> SortByID(emptyOnuIDList), err |-> ErrNil,
              panicked |-> FALSE]

\* The free ids of one (board, port) are asked for: the walk visits up to
\* MaxVisited pdus and succeeds or fails.
EmptyOne ==
    /\ probe = NoProbe
    /\ \E c \in WalkedCells, walkErr \in {ErrNil, "walk failed"},
          n \in 0 .. MaxVisited :
          \E pick \in [1 .. n -> DOMAIN WalkedPdus(c[1], c[2])] :
              LET visitedPdus == [i \in 1 .. n |-> WalkedPdus(c[1], c[2])[pick[i]]]
                  r == GetEmptyOnuID(c[1], c[2], visitedPdus, walkErr)
              IN  probe' = [called |-> TRUE, boardID |-> c[1], ponID |-> c[2],
                            walkErr |-> walkErr, visitedPdus |-> visitedPdus,
                            list |-> r.list, err |-> r.err,
                            panicked |-> r.panicked]
    /\ UNCHANGED << scan, maxConcurrent, ppc, cell, discoveredOnus, jobs, closed,
                    wpc, wjob, wrec, uniqueOnus, ctxDone, crashed, emitted,
                    outcome, skipped, visited, discovered, issued, previous, calls >>

EmptySpec == Init /\ [][EmptyOne]_vars

(* ------------------------ settings of the collector -------------------- *)
\* A Go int (64 bits) is a sign and the decimal digits of its magnitude,
\* without leading zeros; zero is never negative.
Int64(neg, mag) == [neg |-> neg, mag |-> mag]
Zero == Int64(FALSE, << "0" >>)
\* math.MaxInt64 and the magnitude of math.MinInt64
MaxInt64Mag == << "9", "2", "2", "3", "3", "7", "2", "0", "3", "6",
                  "8", "5", "4", "7", "7", "5", "8", "0", "7" >>
MinInt64Mag == << "9", "2", "2", "3", "3", "7", "2", "0", "3", "6",
                  "8", "5", "4", "7", "7", "5", "8", "0", "8" >>

RECURSIVE StripZeros(_)
StripZeros(d) ==
    IF Len(d) > 1 /\ d[1] = "0" THEN StripZeros(Tail(d)) ELSE d

\* a < b for magnitudes without leading zeros
RECURSIVE MagLess(_, _)
MagLess(a, b) ==
    IF Len(a) # Len(b) THEN Len(a) < Len(b)
    ELSE IF a = << >> THEN FALSE
    ELSE IF a[1] # b[1] THEN DigitVal(a[1]) < DigitVal(b[1])
    ELSE MagLess(Tail(a), Tail(b))

\* strconv.Atoi(s): an optional sign and decimal digits; (0, ErrSyntax) for
\* any other text, the empty one included, and the nearest bound of int64
\* with ErrRange for a number that does not fit
strconvAtoi(s) ==
    LET signed == s # << >> /\ s[1] \in {"+", "-"}
        neg == s # << >> /\ s[1] = "-"
        body == IF signed THEN Tail(s) ELSE s
    IN  IF body = << >> \/ ~AllDigits(body)
        THEN [n |-> Zero, err |-> "ErrSyntax"]
        ELSE LET mag == StripZeros(body)
                 limit == IF neg THEN MinInt64Mag ELSE MaxInt64Mag
             IN  IF MagLess(limit, mag)
                 THEN [n |-> Int64(neg, limit), err |-> "ErrRange"]
                 ELSE [n |-> Int64(neg /\ mag # << "0" >>, mag), err |-> ErrNil]

\* NewOnuCollector: env is the environment (os.Getenv gives the empty text
\* for a variable that is not set); the error of Atoi is dropped, and a
\* setting that came out as 0 gets its default
NewOnuCollector(env) ==
    LET boardMin == strconvAtoi(env.PROMETHEUS_BOARD_MIN).n
        boardMax == strconvAtoi(env.PROMETHEUS_BOARD_MAX).n
        ponMin == strconvAtoi(env.PROMETHEUS_PON_MIN).n
        ponMax == strconvAtoi(env.PROMETHEUS_PON_MAX).n
        \* (the local maxConcurrent of the constructor)
        maxConcurrent0 == strconvAtoi(env.PROMETHEUS_MAX_CONCURRENT).n
    IN  [boardMin |-> IF boardMin = Zero THEN Int64(FALSE, << "1" >>) ELSE boardMin,
         boardMax |-> IF boardMax = Zero THEN Int64(FALSE, << "2" >>) ELSE boardMax,
         ponMin |-> IF ponMin = Zero THEN Int64(FALSE, << "1" >>) ELSE ponMin,
         ponMax |-> IF ponMax = Zero THEN Int64(FALSE, << "1", "6" >>) ELSE ponMax,
         maxConcurrent |-> IF maxConcurrent0 = Zero
                           THEN Int64(FALSE, << "1", "0" >>) ELSE maxConcurrent0]

\* texts a setting may hold: not set, zero, integers with and without a
\* sign or leading zeros, texts that are no integer, and integers on both
\* sides of the bound of int64
EnvTexts ==
    { << >>, << "0" >>, << "5" >>, << "-", "3" >>, << "+", "0", "7" >>,
      << "a", "b", "c" >>, << "1", ".", "5" >>,
      MaxInt64Mag, MinInt64Mag }
Settings ==
    {"PROMETHEUS_BOARD_MIN", "PROMETHEUS_BOARD_MAX", "PROMETHEUS_PON_MIN",
     "PROMETHEUS_PON_MAX", "PROMETHEUS_MAX_CONCURRENT"}
\* the field of the collector that a setting fills
FieldOfSetting ==
    [PROMETHEUS_BOARD_MIN |-> "boardMin", PROMETHEUS_BOARD_MAX |-> "boardMax",
     PROMETHEUS_PON_MIN |-> "ponMin", PROMETHEUS_PON_MAX |-> "ponMax",
     PROMETHEUS_MAX_CONCURRENT |-> "maxConcurrent"]

\* The collector is constructed on its own, under any environment.
Construct ==
    /\ probe = NoProbe
    /\ \E env \in [Settings -> EnvTexts] :
          probe' = [called |-> TRUE, env |-> env, c |-> NewOnuCollector(env)]
    /\ UNCHANGED << scan, maxConcurrent, ppc, cell, discoveredOnus, jobs,
                    closed, wpc, wjob, wrec, uniqueOnus, ctxDone, crashed, emitted,
                    outcome, skipped, visited, discovered, issued, previous, calls >>

ConfigSpec == Init /\ [][Construct]_vars

(* -------------- the cycle of a collector as constructed ---------------- *)
\* a Go int of few digits as an integer
IntOf(n) == IF n.neg THEN 0 - Atoi(n.mag) ELSE Atoi(n.mag)
\* texts of PROMETHEUS_MAX_CONCURRENT under which the cycle is run (the
\* default of 10 workers is left to ConfigSpec)
PoolTexts == { << "-", "1" >>, << "1" >>, << "+", "2" >> }
\* the environment with only PROMETHEUS_MAX_CONCURRENT set
PoolEnv(text) ==
    [k \in Settings |-> IF k = "PROMETHEUS_MAX_CONCURRENT" THEN text ELSE << >>]

\* Init with the pool size that NewOnuCollector makes of the setting
PoolInit ==
    /\ scan \in ScanRanges
    /\ \E text \in PoolTexts :
          maxConcurrent = IntOf(NewOnuCollector(PoolEnv(text)).maxConcurrent)
    /\ ppc = "idle"
    /\ cell = << 0, 0 >>
    /\ discoveredOnus = << >>
    /\ jobs = << >>
    /\ closed = FALSE
    /\ wpc = << >>
    /\ wjob = << >>
    /\ wrec = << >>
    /\ uniqueOnus = << >>
    /\ calls = << >>
    /\ ctxDone = FALSE
    /\ crashed = FALSE
    /\ emitted = {}
    /\ outcome = << >>
    /\ skipped = {}
    /\ visited = {}
    /\ discovered = {}
    /\ issued = << >>
    /\ probe = NoProbe
    /\ previous = {}

PoolSpec == PoolInit /\ [][Next]_vars

(* ------------------- calls of Collect side by side --------------------- *)
\* The registry may call Collect while an earlier call is still running.
\* calls[c] holds what call c keeps in its locals and closures: the loop
\* variables of the producer, the list being sent, the jobs channel, the
\* position and job of each of its workers, and its sync.Map; sent, taken and
\* merged are histories.  The steps are those of the cycle above; a worker's
\* Get and the merge that follows it are taken as one step.

\* mutant of LocalsOf: the channel and the map are shared by all calls
LocalsOfFirstCall(c) == 1

\* the call whose jobs channel and sync.Map the goroutines of call c use:
\* both are locals of Collect, captured by the closures of that call
LocalsOf(c) == c

\* Collect is called
CallCollect ==
    /\ Len(calls) < MaxCalls
    /\ ~crashed
    /\ calls' = Append(calls,
          [pc |-> FirstCell.ppc, cell |-> FirstCell.cell, list |-> << >>,
           jobs |-> << >>, closed |-> FALSE,
           wpc |-> [w \in PoolIDs |-> "recv"],
           wjob |-> [w \in PoolIDs |-> NoJob],
           uniqueOnus |-> NewMap, emitted |-> {},
           sent |-> << >>, taken |-> << >>, merged |-> << >>])
    /\ UNCHANGED << scan, maxConcurrent, ppc, cell, discoveredOnus, jobs, closed,
                    wpc, wjob, wrec, uniqueOnus, ctxDone, crashed, emitted,
                    outcome, skipped, visited, probe, discovered, issued,
                    previous >>

\* GetByBoardIDAndPonID for the current cell of call c, up to its return
CallDiscover(c) ==
    /\ calls[c].pc = "discover"
    /\ ~crashed
    /\ LET here == calls[c].cell
           r == getOltConfig(here[1], here[2])
       IN  IF r.err # ErrNil
           THEN /\ calls' = [calls EXCEPT ![c].pc = AfterCell(here).ppc,
                                          ![c].cell = AfterCell(here).cell]
                /\ crashed' = crashed
           ELSE IF r.cfg = NilPtr
                THEN /\ crashed' = TRUE
                     /\ calls' = calls
                ELSE /\ crashed' = crashed
                     /\ \E walkErr \in {ErrNil, "walk failed"}, ids \in SUBSET OnuIDs :
                           /\ Len(calls[c].sent) + Cardinality(ids) <= MaxCallDevices
                           /\ LET d == DiscoveredOnus(here[1], here[2], walkErr, ids)
                              IN  IF d.err # ErrNil \/ d.list = << >>
                                  THEN calls' = [calls EXCEPT
                                          ![c].pc = AfterCell(here).ppc,
                                          ![c].cell = AfterCell(here).cell]
                                  ELSE calls' = [calls EXCEPT
                                          ![c].pc = "enqueue",
                                          ![c].list = d.list]
    /\ UNCHANGED << scan, maxConcurrent, ppc, cell, discoveredOnus, jobs, closed,
                    wpc, wjob, wrec, uniqueOnus, ctxDone, emitted,
                    outcome, skipped, visited, probe, discovered, issued,
                    previous >>

\* jobs <- onu in call c
CallEnqueue(c) ==
    /\ calls[c].pc = "enqueue"
    /\ ~crashed
    /\ Len(calls[LocalsOf(c)].jobs) < JobsCap
    /\ LET onu == Head(calls[c].list)
           last == Tail(calls[c].list) = << >>
           here == calls[c].cell
       IN  calls' = [calls EXCEPT
              ![c].list = Tail(@),
              ![c].sent = Append(@, onu),
              ![c].pc = IF last THEN AfterCell(here).ppc ELSE @,
              ![c].cell = IF last THEN AfterCell(here).cell ELSE @,
              ![LocalsOf(c)].jobs = Append(@, onu)]
    /\ UNCHANGED << scan, maxConcurrent, ppc, cell, discoveredOnus, jobs, closed,
                    wpc, wjob, wrec, uniqueOnus, ctxDone, crashed, emitted,
                    outcome, skipped, visited, probe, discovered, issued,
                    previous >>

\* close(jobs) in call c
CallClose(c) ==
    /\ calls[c].pc = "close"
    /\ ~crashed
    /\ calls' = [calls EXCEPT ![c].pc = "wait", ![LocalsOf(c)].closed = TRUE]
    /\ UNCHANGED << scan, maxConcurrent, ppc, cell, discoveredOnus, jobs, closed,
                    wpc, wjob, wrec, uniqueOnus, ctxDone, crashed, emitted,
                    outcome, skipped, visited, probe, discovered, issued,
                    previous >>

\* wg.Wait() returns in call c, uniqueOnus.Range(sendMetrics), return
CallReturn(c) ==
    /\ calls[c].pc = "wait"
    /\ ~crashed
    /\ WaitReturns(calls[c].wpc)
    /\ LET m == calls[LocalsOf(c)].uniqueOnus
       IN  calls' = [calls EXCEPT ![c].pc = "done",
                                  ![c].emitted = {m[s] : s \in DOMAIN m}]
    /\ UNCHANGED << scan, maxConcurrent, ppc, cell, discoveredOnus, jobs, closed,
                    wpc, wjob, wrec, uniqueOnus, ctxDone, crashed, emitted,
                    outcome, skipped, visited, probe, discovered, issued,
                    previous >>

\* worker w of call c receives a job and runs up to the call of Get
CallWorkerRecv(c, w) ==
    /\ calls[c].wpc[w] = "recv"
    /\ ~crashed
    /\ calls[LocalsOf(c)].jobs # << >>
    /\ LET job == Head(calls[LocalsOf(c)].jobs)
           r == getOltConfig(job.Board, job.PON)
       IN  IF r.err = ErrNil /\ r.cfg = NilPtr
           THEN /\ crashed' = TRUE
                /\ calls' = calls
           ELSE /\ crashed' = crashed
                /\ calls' = [calls EXCEPT
                      ![LocalsOf(c)].jobs = Receive(@),
                      ![c].taken = Append(@, job),
                      ![c].wpc[w] = IF r.err # ErrNil THEN "recv" ELSE "get",
                      ![c].wjob[w] = IF r.err # ErrNil THEN NoJob ELSE job]
    /\ UNCHANGED << scan, maxConcurrent, ppc, cell, discoveredOnus, jobs, closed,
                    wpc, wjob, wrec, uniqueOnus, ctxDone, emitted,
                    outcome, skipped, visited, probe, discovered, issued,
                    previous >>

\* the Get of worker w of call c returns; a record with a serial number is
\* merged into the map
CallGetReturn(c, w) ==
    /\ calls[c].wpc[w] = "get"
    /\ ~crashed
    /\ \E getErr \in {ErrNil, "get failed"}, serial \in Serials, status \in Statuses :
          LET r == DetailResult(calls[c].wjob[w], getErr, serial, status)
              m == calls[LocalsOf(c)].uniqueOnus
              k == MapKey(r.rec)
              exists == k \in DOMAIN m
              existingOnu == IF exists THEN m[k] ELSE NoRecord
          IN  IF r.err # ErrNil \/ ~HasSerial(r.rec)
              THEN calls' = [calls EXCEPT ![c].wpc[w] = "recv",
                                          ![c].wjob[w] = NoJob]
              ELSE calls' = [calls EXCEPT
                      ![c].wpc[w] = "recv",
                      ![c].wjob[w] = NoJob,
                      ![c].merged = Append(@, r.rec),
                      ![LocalsOf(c)].uniqueOnus =
                          IF ShouldStore(exists, existingOnu, r.rec)
                          THEN (k :> r.rec) @@ m ELSE m]
    /\ UNCHANGED << scan, maxConcurrent, ppc, cell, discoveredOnus, jobs, closed,
                    wpc, wjob, wrec, uniqueOnus, ctxDone, crashed, emitted,
                    outcome, skipped, visited, probe, discovered, issued,
                    previous >>

\* range jobs ends for worker w of call c
CallWorkerExit(c, w) ==
    /\ calls[c].wpc[w] = "recv"
    /\ ~crashed
    /\ calls[LocalsOf(c)].jobs = << >>
    /\ calls[LocalsOf(c)].closed
    /\ calls' = [calls EXCEPT ![c].wpc[w] = "exit"]
    /\ UNCHANGED << scan, maxConcurrent, ppc, cell, discoveredOnus, jobs, closed,
                    wpc, wjob, wrec, uniqueOnus, ctxDone, crashed, emitted,
                    outcome, skipped, visited, probe, discovered, issued,
                    previous >>

ConcurrentNext ==
    \/ CallCollect
    \/ \E c \in DOMAIN calls : CallDiscover(c)
    \/ \E c \in DOMAIN calls : CallEnqueue(c)
    \/ \E c \in DOMAIN calls : CallClose(c)
    \/ \E c \in DOMAIN calls : CallReturn(c)
    \/ \E c \in DOMAIN calls : \E w \in PoolIDs : CallWorkerRecv(c, w)
    \/ \E c \in DOMAIN calls : \E w \in PoolIDs : CallGetReturn(c, w)
    \/ \E c \in DOMAIN calls : \E w \in PoolIDs : CallWorkerExit(c, w)

ConcurrentSpec == Init /\ [][ConcurrentNext]_vars

(* -------------------------------- claims -------------------------------- *)
\* C1: when the cycle has ended, a serial number for which an Unknown-status
\* record and a non-Unknown-status record were both fetched is held with a
\* non-Unknown record, whatever the interleaving of the workers.
C1_NonUnknownWins ==
    ppc = "done" =>
        \A r1, r2 \in Fetched :
            ( /\ HasSerial(r1)
              /\ r1.SerialNumber = r2.SerialNumber
              /\ mapStatusToNumeric(r1.Status) = 0
              /\ mapStatusToNumeric(r2.Status) # 0 )
            => /\ r1.SerialNumber \in DOMAIN uniqueOnus
               /\ mapStatusToNumeric(uniqueOnus[r1.SerialNumber].Status) # 0

\* C2: while a worker is between its lookup and its store, no other worker
\* performs a lookup or a store on the result set.
C2_MergeExclusive ==
    [][ \A w \in Workers :
          wpc[w] = "store" =>
              \A v \in Workers \ {w} :
                  ~(wpc[v] \in {"load", "store"} /\ wpc'[v] # wpc[v]) ]_vars

\* C3: once the deadline has fired during a cycle, the result set is the one
\* merged before the deadline: no record is merged any more, and the cycle
\* does not wait for the fetches in flight.
C3_DeadlineEndsCycle ==
    [][ (ctxDone /\ Running) =>
           /\ uniqueOnus' = uniqueOnus
           /\ \A w \in Workers : wpc[w] = "get" => wpc'[w] # "load" ]_vars

\* C4: once the deadline has fired, no worker starts a detail fetch and the
\* producer starts no discovery walk.
C4_NoNewRequestAfterDeadline ==
    [][ (ctxDone /\ Running) =>
           /\ \A w \in Workers : wpc'[w] = "get" => wpc[w] = "get"
           /\ ppc' = "walk" => ppc = "walk" ]_vars

\* C5: with at least one worker, every walk and get returning and fair
\* scheduling, every cycle that is started reaches its terminal state (all
\* workers have exited and the result has been emitted).
C5_CycleTerminates ==
    (ppc # "idle") ~> (ppc = "done" /\ \A w \in Workers : wpc[w] = "exit")

\* without a panic the cycle does terminate: the producer cannot block for
\* ever on a full channel while a worker runs
TerminatesUnlessCrashed ==
    (ppc # "idle") ~> (crashed \/ (ppc = "done" /\ \A w \in Workers : wpc[w] = "exit"))

\* C6: in a cycle whose deadline has not expired, the job source is closed
\* only after every cell of the matrix has been enumerated and every
\* discovered job enqueued; the result is read only after the job source is
\* closed, every enqueued job processed and every worker gone; and the result
\* set no longer changes once it has been emitted.
C6_DrainBeforeEmit ==
    ~ctxDone =>
        /\ closed => (visited = Matrix /\ discoveredOnus = << >>)
        /\ ppc \in {"emit", "done"} =>
              /\ closed
              /\ jobs = << >>
              /\ Processed = DOMAIN outcome
              /\ \A w \in Workers : wpc[w] = "exit"
        /\ ppc = "done" => emitted = Stored

C6_Witness ==
    /\ ppc = "done"
    /\ ~ctxDone
    /\ Cardinality(DOMAIN outcome) = 2
    /\ Stored # {}

\* C7: the result set never holds an entry with an empty serial number: a
\* record without serial number is dropped before the merge and never emitted.
C7_NoEmptySerial ==
    /\ "" \notin DOMAIN uniqueOnus
    /\ \A r \in Stored \cup emitted : r.SerialNumber # ""
    /\ \A w \in Workers : wpc[w] \in {"load", "store"} => wrec[w].SerialNumber # ""

C7_Witness ==
    /\ ppc = "done"
    /\ \E r \in Fetched : r.SerialNumber = ""
    /\ emitted # {}

\* C8: a device whose get failed contributes no record (none is held by a
\* worker, merged or emitted); the other jobs are still processed, and the
\* cycle ends with the records of the devices whose fetch succeeded.
C8_FailedFetchIsolated ==
    /\ \A j \in DOMAIN outcome :
          outcome[j].st = "error" =>
              \A r \in Stored \cup emitted \cup {wrec[w] : w \in Workers} :
                  ~SameDevice(r, j)
    /\ ppc = "done" =>
          /\ Processed = DOMAIN outcome
          /\ DOMAIN uniqueOnus = {r.SerialNumber : r \in {f \in Fetched : HasSerial(f)}}
          /\ Stored \subseteq Fetched
          /\ emitted = Stored

C8_Witness ==
    /\ ppc = "done"
    /\ \E j3, j5 \in DOMAIN outcome :
          /\ j3.ID = 3 /\ j5.ID = 5
          /\ outcome[j5].st = "error"
          /\ outcome[j3].st = "got"
          /\ outcome[j3].rec.SerialNumber = "ABC123"
          /\ emitted = {outcome[j3].rec}

\* C9: a cell whose walk failed gets no job; discovery goes on to every
\* remaining cell of the matrix, and the devices of the other cells are
\* fetched and merged as usual by the end of the cycle.
C9_WalkFailureSkipsCell ==
    /\ \A s \in skipped :
          s[2] = "walk" =>
              /\ \A j \in DOMAIN outcome : << j.Board, j.PON >> # s[1]
              /\ \A i \in DOMAIN discoveredOnus :
                    << discoveredOnus[i].Board, discoveredOnus[i].PON >> # s[1]
    /\ ppc \in {"close", "wait", "emit", "done"} => visited = Matrix
    /\ ppc = "done" =>
          /\ \A j \in DOMAIN outcome : outcome[j].st \in {"got", "error"}
          /\ \A j \in DOMAIN outcome :
                (outcome[j].st = "got" /\ HasSerial(outcome[j].rec))
                => outcome[j].rec.SerialNumber \in DOMAIN uniqueOnus

C9_Witness ==
    /\ ppc = "done"
    /\ << << 1, 16 >>, "walk" >> \in skipped
    /\ \E r \in emitted : r.Board = 2 /\ r.PON = 16

\* C10: for every (board, port) outside boards {1,2} x ports 1..16 the
\* resolver fails with an error and returns no address set.
C10_UnsupportedFails ==
    (probe.called /\ ~Supported(probe.boardID, probe.ponID))
    => (probe.err # ErrNil /\ probe.cfg = NilPtr)

\* C11: the discovery call of an unsupported cell of the matrix returns an
\* error and the cell is skipped (the producer goes on to the next cell); it
\* never crashes the process.
C11_UnsupportedCellSkipped ==
    [][ (Discover /\ ~Supported(cell[1], cell[2])) =>
           /\ ~crashed'
           /\ << cell, "address" >> \in skipped'
           /\ ppc' = AfterCell(cell).ppc
           /\ cell' = AfterCell(cell).cell ]_vars

\* a merge step of worker w: its lookup finds an entry for the serial number
\* of its record, and both records are Unknown or both are not
TieAtLookup(w) ==
    /\ wpc[w] = "load"
    /\ wrec[w].SerialNumber \in DOMAIN uniqueOnus
    /\ (mapStatusToNumeric(uniqueOnus[wrec[w].SerialNumber].Status) = 0)
       = (mapStatusToNumeric(wrec[w].Status) = 0)

\* C12 (as stated): after the merge of a record that ties with the entry
\* already stored for its serial number, the entry is the incoming record.
C12_LatestWinsOnTie ==
    [][ \A w \in Workers :
          (TieAtLookup(w) /\ wpc'[w] # "load") =>
              uniqueOnus'[wrec[w].SerialNumber] = wrec[w] ]_vars

\* C12 (amended): a record whose lookup finds an entry that ties with it is
\* discarded: the worker stores nothing and the entry stays as it was.
C12_FirstWinsOnTie ==
    [][ \A w \in Workers :
          (TieAtLookup(w) /\ wpc'[w] # "load") =>
              /\ wpc'[w] = "recv"
              /\ uniqueOnus' = uniqueOnus ]_vars

C12_Witness ==
    /\ ppc = "done"
    /\ maxConcurrent = 1
    /\ \E r1, r2 \in Fetched :
          /\ r1 # r2
          /\ HasSerial(r1)
          /\ r1.SerialNumber = r2.SerialNumber
          /\ (mapStatusToNumeric(r1.Status) = 0) = (mapStatusToNumeric(r2.Status) = 0)
          /\ Cardinality(emitted) = 1

\* the elements of a sequence
Range(q) == {q[i] : i \in DOMAIN q}
\* the number of Get calls issued for a job
Issued(j) == IF j \in DOMAIN issued THEN issued[j] ELSE 0

\* C13: within a cycle a job is never in the channel twice nor held by two
\* workers, its Get is issued at most once (no retry after a failure), a
\* discovered job is never lost on the way (list, channel, worker, result),
\* and when the cycle ends every discovered job has been fetched exactly once.
C13_EachJobFetchedOnce ==
    /\ \A j \in DOMAIN issued : issued[j] <= 1
    /\ \A i, k \in DOMAIN jobs : i # k => jobs[i] # jobs[k]
    /\ \A w, v \in Workers : (w # v /\ wjob[w] # NoJob) => wjob[w] # wjob[v]
    /\ \A j \in discovered :
          \/ j \in Range(discoveredOnus)
          \/ j \in Range(jobs)
          \/ \E w \in Workers : wjob[w] = j
          \/ j \in Processed
    /\ \A j \in discovered :
          Cardinality({w \in Workers : wjob[w] = j})
          + Cardinality({i \in DOMAIN jobs : jobs[i] = j})
          + Cardinality({i \in DOMAIN discoveredOnus : discoveredOnus[i] = j})
          + (IF j \in Processed THEN 1 ELSE 0) = 1
    /\ ppc = "done" => \A j \in discovered : Issued(j) = 1

C13_Witness ==
    /\ ppc = "done"
    /\ Cardinality(discovered) = MaxDevices
    /\ \E j \in discovered : outcome[j].st = "error"
    /\ \E j \in discovered : outcome[j].st = "got"

\* the number of discovery walks in flight
WalksInFlight == IF ppc = "walk" /\ ~crashed THEN 1 ELSE 0
\* the number of detail fetches in flight
GetsInFlight == Cardinality({w \in Workers : wpc[w] = "get"})

\* C14: at every moment at most maxConcurrent detail fetches and at most one
\* discovery walk are in flight.
C14_BoundedInFlight ==
    /\ GetsInFlight <= maxConcurrent
    /\ WalksInFlight <= 1

C14_Witness ==
    /\ maxConcurrent = 2
    /\ GetsInFlight = 2
    /\ WalksInFlight = 1

\* C16: the records of one result carry pairwise different serial numbers,
\* also when devices of different cells decode to the same serial number.
C16_UniqueSerials ==
    \A r1, r2 \in Stored \cup emitted :
        r1.SerialNumber = r2.SerialNumber => r1 = r2

C16_Witness ==
    /\ ppc = "done"
    /\ Cardinality(emitted) = 1
    /\ \E r1, r2 \in Fetched :
          /\ HasSerial(r1)
          /\ r1.SerialNumber = r2.SerialNumber
          /\ << r1.Board, r1.PON >> # << r2.Board, r2.PON >>

\* the twelve attribute sub-addresses of an address set
AttributeOIDs ==
    {"OnuIDNameOID", "OnuTypeOID", "OnuSerialNumberOID", "OnuRxPowerOID",
     "OnuTxPowerOID", "OnuStatusOID", "OnuIPAddressOID", "OnuDescriptionOID",
     "OnuLastOnlineOID", "OnuLastOfflineOID", "OnuLastOfflineReasonOID",
     "OnuGponOpticalDistanceOID"}

\* C17: for every board in {1,2} and port in 1..16 the resolver returns, with
\* no error, a non-nil address set whose twelve attribute sub-addresses are
\* the ones configured for exactly that board and that port.
C17_ResolvesOwnCell ==
    (probe.called /\ Supported(probe.boardID, probe.ponID)) =>
        /\ probe.err = ErrNil
        /\ probe.cfg # NilPtr
        /\ Len(probe.cfg) = 1
        /\ \A a \in AttributeOIDs :
              probe.cfg[1][a] = << probe.boardID, probe.ponID, a >>
        /\ DOMAIN probe.cfg[1] = AttributeOIDs \cup {"BaseOID"}

C17_Witness ==
    /\ probe.called
    /\ probe.boardID = 2
    /\ probe.ponID = 16
    /\ probe.cfg # NilPtr
    /\ probe.cfg[1]["OnuGponOpticalDistanceOID"] = << 2, 16, "OnuGponOpticalDistanceOID" >>

\* the series of one description among those sent for the device
SeriesOf(desc) == {i \in DOMAIN probe.series : probe.series[i].desc = desc}
ValueOf(desc) == probe.series[CHOOSE i \in SeriesOf(desc) : TRUE].value
\* the readings, among those tried, that are numbers below 100
ReadingsBelow100 ==
    {<< "-", "2", "1", ".", "5", "0" >>, << "9", "9", ".", "9", "9" >>,
     << "2", ".", "5" >>}

\* C18: for every record sent, the rx power series is sent exactly when the
\* status is Online and the rx reading is a number below 100, and carries
\* that number; the same holds, independently, for the tx power series.
C18_PowerOnlyWhenOnline ==
    (probe.called /\ probe.sent) =>
        \A m \in {<< "OnuRxPowerGaugeDesc", probe.rec.RXPower >>,
                  << "OnuTxPowerGaugeDesc", probe.rec.TXPower >>} :
            /\ Cardinality(SeriesOf(m[1])) <= 1
            /\ SeriesOf(m[1]) # {}
                  <=> (probe.rec.Status = "Online" /\ m[2] \in ReadingsBelow100)
            /\ SeriesOf(m[1]) # {} =>
                  /\ ValueOf(m[1]) = ParseFloat(m[2]).f
                  /\ LessThan(ValueOf(m[1]), 100)

C18_Witness ==
    /\ probe.called /\ probe.sent
    /\ probe.rec.Status = "Online"
    /\ probe.rec.RXPower = << "9", "9", ".", "9", "9" >>
    /\ probe.rec.TXPower = << "1", "0", "0" >>
    /\ SeriesOf("OnuRxPowerGaugeDesc") # {}
    /\ ValueOf("OnuRxPowerGaugeDesc") = Finite(FALSE, 99, 99)
    /\ SeriesOf("OnuTxPowerGaugeDesc") = {}

\* C19: the status series of every record sent has the value 1 for Online,
\* 2 for Dying Gasp, 3 for LOS, 4 for Power-Off and 0 for every other
\* status; it is always one of 0..4.
C19_StatusValueTotal ==
    (probe.called /\ probe.sent) =>
        LET st == probe.rec.Status
        IN  /\ Cardinality(SeriesOf("OnuStatusGaugeDesc")) = 1
            /\ ValueOf("OnuStatusGaugeDesc") =
                  Float64(IF st = "Online" THEN 1
                          ELSE IF st = "Dying Gasp" THEN 2
                          ELSE IF st = "LOS" THEN 3
                          ELSE IF st = "Power-Off" THEN 4
                          ELSE 0)
            /\ \E n \in 0 .. 4 : ValueOf("OnuStatusGaugeDesc") = Float64(n)

C19_Witness ==
    /\ probe.called /\ probe.sent
    /\ probe.rec.Status = "Power-Off"
    /\ ValueOf("OnuStatusGaugeDesc") = Float64(4)

\* C20: a detail fetch that was answered and found no last-online timestamp
\* returns without error a record with an empty uptime; if the record has a
\* serial number it is sent with uptime 0 and last-online epoch 0; and a
\* record sent with an empty or unparseable last-offline has last-offline
\* epoch 0.
C20_UnknownTimestampIsZero ==
    ( /\ probe.called
      /\ probe.getErr = ErrNil
      /\ Supported(probe.job.Board, probe.job.PON)
      /\ probe.resp.lastOnline.kind # "other"
      /\ probe.resp.lastOffline.kind # "other" ) =>
        /\ ~probe.panicked
        /\ probe.err = ErrNil
        /\ probe.sent <=> probe.resp.serial # ""
        /\ (probe.resp.lastOnline.kind = "nil" \/ probe.resp.lastOnline.err) =>
              /\ probe.rec.LastOnline = << >>
              /\ probe.rec.Uptime = << >>
              /\ probe.sent =>
                    /\ ValueOf("OnuUptimeGaugeDesc") = Float64(0)
                    /\ ValueOf("OnuLastOnlineGaugeDesc") = Float64(0)
        /\ ( /\ probe.sent
             /\ probe.rec.LastOffline \in {<< >>, Stamp(0, 0, 0, 0, 0, 0)} ) =>
              ValueOf("OnuLastOfflineGaugeDesc") = Float64(0)

C20_Witness ==
    /\ probe.called /\ probe.sent
    /\ probe.resp.lastOnline.kind = "nil"
    /\ probe.rec.Uptime = << >>
    /\ probe.rec.LastOffline = Stamp(0, 0, 0, 0, 0, 0)
    /\ ValueOf("OnuUptimeGaugeDesc") = Float64(0)
    /\ ValueOf("OnuLastOnlineGaugeDesc") = Float64(0)
    /\ ValueOf("OnuLastOfflineGaugeDesc") = Float64(0)

\* C15: the records a cycle sends are records fetched in that same cycle, so
\* a serial number sent by an earlier cycle whose device is not discovered or
\* not fetched with success in the current cycle is not sent by this cycle;
\* and the result set of a cycle never holds a record of an earlier cycle.
C15_NoStaleRecord ==
    /\ Stored \subseteq Fetched
    /\ ppc = "done" =>
          /\ emitted \subseteq Fetched
          /\ \A s \in previous :
                (\A r \in Fetched : r.SerialNumber # s)
                   => (\A r \in emitted : r.SerialNumber # s)

C15_Witness ==
    /\ ppc = "done"
    /\ "ABC123" \in previous
    /\ \A r \in Fetched : r.SerialNumber # "ABC123"
    /\ \E r \in emitted : r.SerialNumber = "DUP01"
    /\ \A r \in emitted : r.SerialNumber # "ABC123"

\* C21: whatever the response carries for the last-online and the
\* last-offline address (no value, bytes the decoder accepts or rejects, a
\* value that is no byte string), an answered detail fetch returns a record
\* without error or panic; a value that cannot be decoded leaves its own
\* timestamp field empty and every other field is decoded as usual.
C21_TimestampDecodeNeverAborts ==
    ( /\ probe.called
      /\ probe.getErr = ErrNil
      /\ Supported(probe.job.Board, probe.job.PON) ) =>
        /\ ~probe.panicked
        /\ probe.err = ErrNil
        /\ SameDevice(probe.rec, probe.job)
        /\ probe.rec.SerialNumber = probe.resp.serial
        /\ probe.rec.Status = probe.resp.status
        /\ probe.rec.RXPower = probe.resp.rx
        /\ probe.rec.TXPower = probe.resp.tx
        /\ probe.rec.GponOpticalDistance = probe.resp.distance
        /\ probe.rec.Name = probe.resp.name
        /\ probe.rec.LastOnline = TimestampField(probe.resp.lastOnline)
        /\ probe.rec.LastOffline = TimestampField(probe.resp.lastOffline)

\* C22: the detail fetch of a device whose (board, port) resolves issues
\* exactly one get, and that get carries, for each of the twelve attributes,
\* the address made of the sub-address configured for that board and port
\* and of the device id; a fetch whose (board, port) does not resolve issues
\* no get.
C22_OneBatchedGet ==
    probe.called =>
        IF Supported(probe.job.Board, probe.job.PON)
        THEN /\ Len(probe.gets) = 1
             /\ Len(probe.gets[1]) = 12
             /\ \A a \in AttributeOIDs :
                   \E i \in DOMAIN probe.gets[1] :
                       /\ probe.gets[1][i].attr
                             = << probe.job.Board, probe.job.PON, a >>
                       /\ probe.gets[1][i].id = Itoa(probe.job.ID)
        ELSE probe.gets = << >>

C22_Witness ==
    /\ probe.called
    /\ probe.job = Job(1, 16, 3)
    /\ probe.getErr = ErrNil
    /\ Len(probe.gets) = 1
    /\ probe.gets[1][4] = Address(<< "OltCfg", "BaseOID1" >>,
                                  << 1, 16, "OnuRxPowerOID" >>, << "3" >>, ".1")

\* the orders in which the pairs of the decoded response may arrive
Orders == {f \in [DOMAIN probe.variables -> DOMAIN probe.variables] :
              Injective(f)}
Reordered(f) == [i \in DOMAIN probe.variables |-> probe.variables[f[i]]]
\* the outcome of decoding a list of pairs: the record, or the panic
Outcome(variables) ==
    LET r == DecodeVariables(InitialInfo(DecodedJob), DecodedOIDs, variables)
    IN  IF r.panicked THEN << "panic" >> ELSE << "record", r.rec >>
\* the pairs of the response that answer one of the twelve addresses
Asked(i) == \E k \in DOMAIN DecodedOIDs : DecodedOIDs[k] = probe.variables[i].name
RECURSIVE OnlyAsked(_)
OnlyAsked(variables) ==
    IF variables = << >> THEN << >>
    ELSE IF \E k \in DOMAIN DecodedOIDs : DecodedOIDs[k] = Head(variables).name
    THEN << Head(variables) >> \o OnlyAsked(Tail(variables))
    ELSE OnlyAsked(Tail(variables))
\* no address occurs in two pairs of the response
DistinctAddresses ==
    \A i, j \in DOMAIN probe.variables :
        probe.variables[i].name = probe.variables[j].name => i = j
\* what every order of the pairs has to yield
OrderIndependent ==
    /\ \A f \in Orders : Outcome(Reordered(f)) = Outcome(probe.variables)
    /\ Outcome(OnlyAsked(probe.variables)) = Outcome(probe.variables)
    /\ ~probe.panicked =>
          \A k \in DOMAIN DecodedOIDs :
              (\A i \in DOMAIN probe.variables :
                   probe.variables[i].name # DecodedOIDs[k])
                 => probe.rec[FieldOf[k]] = ZeroCustomerInfo[FieldOf[k]]

\* C23 as stated: every order of the same pairs yields the same record, a
\* pair of an address that was not asked for is ignored, and an attribute
\* without a pair stays empty.
C23_AnyOrderSameRecord == probe.called => OrderIndependent

\* C23: for a response in which no address occurs twice, every order of the
\* pairs yields the same record, a pair of an address that was not asked for
\* is ignored, and an attribute without a pair stays empty.
C23_AnyOrderSameRecordIfDistinct ==
    (probe.called /\ DistinctAddresses) => OrderIndependent

C23_Witness ==
    /\ probe.called
    /\ DistinctAddresses
    /\ Len(probe.variables) = 3
    /\ ~probe.panicked
    /\ \E i \in DOMAIN probe.variables : ~Asked(i)
    /\ probe.rec.SerialNumber = "ABC123"
    /\ probe.rec.LastOnline = Stamp(2024, 3, 1, 0, 0, 0)
    /\ probe.rec.Name = ""

\* the timestamp texts, among those tried, that time.Parse accepts
KnownStamps == {Stamp(2024, 3, 1, 0, 0, 0), Stamp(2024, 2, 28, 12, 30, 15)}

\* C24: an answered detail fetch returns its record without error, and the
\* last-down-duration of the record is empty unless both the last-online
\* and the last-offline timestamp are known (non-empty and parseable).
C24_DownDurationNeedsBoth ==
    ( /\ probe.called
      /\ probe.getErr = ErrNil
      /\ Supported(probe.job.Board, probe.job.PON)
      /\ probe.resp.lastOnline.kind # "other"
      /\ probe.resp.lastOffline.kind # "other" ) =>
        /\ ~probe.panicked
        /\ probe.err = ErrNil
        /\ (probe.rec.LastOnline \notin KnownStamps
            \/ probe.rec.LastOffline \notin KnownStamps)
              => probe.rec.LastDownTimeDuration = << >>
        /\ probe.rec.LastDownTimeDuration # << >> =>
              probe.rec.LastDownTimeDuration
                 = getLastDownDuration(probe.rec.LastOffline,
                                       probe.rec.LastOnline).text

\* both known: 2024-02-28 12:30:15 down, 2024-03-01 00:00:00 up again
C24_Witness ==
    /\ probe.called
    /\ probe.err = ErrNil
    /\ probe.rec.LastOnline = Stamp(2024, 3, 1, 0, 0, 0)
    /\ probe.rec.LastOffline = Stamp(2024, 2, 28, 12, 30, 15)
    /\ probe.rec.LastDownTimeDuration
          = << "1", " " >> \o UnitDays \o << " ", "1", "1", " " >> \o UnitHours
            \o << " ", "2", "9", " " >> \o UnitMinutes
            \o << " ", "4", "5", " " >> \o UnitSeconds

\* the device ids visited by the walk of the discovery run on its own
VisitedIDs ==
    {ExtractIDOnuID(probe.visitedPdus[i].name) : i \in DOMAIN probe.visitedPdus}

\* C25: the discovery of a (board, port) that resolves performs exactly one
\* walk; when the walk succeeds it returns one summary per distinct device
\* id visited, in ascending order of the id, each with the requested board
\* and port; when the walk fails it returns the error and no list.
C25_OneWalkSortedDistinct ==
    (probe.called /\ Supported(probe.boardID, probe.ponID)) =>
        /\ probe.walks = 1
        /\ ~probe.panicked
        /\ IF probe.walkErr # ErrNil
           THEN probe.err = probe.walkErr /\ probe.list = << >>
           ELSE /\ probe.err = ErrNil
                /\ {probe.list[i].ID : i \in DOMAIN probe.list} = VisitedIDs
                /\ Len(probe.list) = Cardinality(VisitedIDs)
                /\ \A i, j \in DOMAIN probe.list :
                      i < j => probe.list[i].ID < probe.list[j].ID
                /\ \A i \in DOMAIN probe.list :
                      /\ probe.list[i].Board = probe.boardID
                      /\ probe.list[i].PON = probe.ponID

\* device 12 is visited first, device 3 twice, and range yields 3 after 12
C25_Witness ==
    /\ probe.called
    /\ probe.boardID = 2 /\ probe.ponID = 1
    /\ probe.walkErr = ErrNil
    /\ Len(probe.visitedPdus) = 3
    /\ VisitedIDs = {3, 12}
    /\ Atoi(probe.keyOrder[1]) = 12
    /\ Len(probe.list) = 2
    /\ probe.list[1].ID = 3 /\ probe.list[2].ID = 12

\* the cells of the matrix that come before c in board-major ascending order
CellsBefore(c) ==
    {d \in Matrix : d[1] < c[1] \/ (d[1] = c[1] /\ d[2] < c[2])}
\* the discovery of a cell is called when exactly the cells before it have
\* been discovered, their lists are used up and their devices enqueued
DiscoveryStartsInTurn ==
    ppc = "discover" =>
        /\ cell \in Matrix
        /\ visited = CellsBefore(cell)
        /\ discoveredOnus = << >>
        /\ discovered \subseteq DOMAIN outcome
\* the discovery that returns is that of the current cell, and the cells
\* discovered before it are exactly those before it in the order
DiscoveryReturnsInTurn ==
    \A c \in visited' \ visited : c = cell /\ visited = CellsBefore(cell)

\* C26: in a cycle the producer calls the discovery of the cells of the
\* matrix in board-major ascending order, each cell once and only after the
\* discovery of the cell before it has returned and its devices have been
\* enqueued, and it gets through the whole matrix.
C26_WholeMatrixInOrder ==
    /\ []DiscoveryStartsInTurn
    /\ [][DiscoveryReturnsInTurn]_vars
    /\ (ppc # "idle") ~> (visited = Matrix)

\* the order and the sequencing hold in every run, and a cycle in which
\* nothing panics gets through the whole matrix
MatrixInOrderUnlessCrashed ==
    /\ []DiscoveryStartsInTurn
    /\ [][DiscoveryReturnsInTurn]_vars
    /\ (ppc # "idle") ~> (crashed \/ visited = Matrix)

\* the series that every record sent has once, with the serial number as
\* their only label
PlainSeries ==
    {"OnuStatusGaugeDesc", "OnuUptimeGaugeDesc", "OnuLastDownDurationGaugeDesc",
     "OnuLastOnlineGaugeDesc", "OnuLastOfflineGaugeDesc"}
\* the series a record may have, with the serial number as their only label
OptionalSeries ==
    {"OnuRxPowerGaugeDesc", "OnuTxPowerGaugeDesc",
     "OnuGponOpticalDistanceGaugeDesc"}
LabelsOf(desc) == probe.series[CHOOSE i \in SeriesOf(desc) : TRUE].labels

\* C27: for a record of the final result the emitter sends exactly one
\* mapping series, of value 1, with the serial number among its nine labels,
\* exactly one status, uptime, last-down-duration, last-online and
\* last-offline series, and the distance series exactly when the distance
\* text is a number; every series but the mapping is labelled with the
\* serial number alone, and nothing else is sent.
C27_OneSeriesOfEachKind ==
    (probe.called /\ probe.sent) =>
        /\ Cardinality(SeriesOf("OnuMappingInfoGaugeDesc")) = 1
        /\ ValueOf("OnuMappingInfoGaugeDesc") = Float64(1)
        /\ Len(LabelsOf("OnuMappingInfoGaugeDesc")) = 9
        /\ LabelsOf("OnuMappingInfoGaugeDesc")[5] = probe.rec.SerialNumber
        /\ LabelsOf("OnuMappingInfoGaugeDesc")[3] = Itoa(probe.job.ID)
        /\ \A d \in PlainSeries :
              /\ Cardinality(SeriesOf(d)) = 1
              /\ LabelsOf(d) = << probe.rec.SerialNumber >>
        /\ \A d \in OptionalSeries :
              /\ Cardinality(SeriesOf(d)) <= 1
              /\ SeriesOf(d) # {} => LabelsOf(d) = << probe.rec.SerialNumber >>
        /\ SeriesOf("OnuGponOpticalDistanceGaugeDesc") # {}
              <=> probe.rec.GponOpticalDistance = << "1", "2", "3", "4" >>
        /\ \A i \in DOMAIN probe.series :
              probe.series[i].desc
                 \in PlainSeries \cup OptionalSeries \cup {"OnuMappingInfoGaugeDesc"}

C27_Witness ==
    /\ probe.called /\ probe.sent
    /\ probe.rec.Status = "LOS"
    /\ probe.rec.GponOpticalDistance = << >>
    /\ Len(probe.series) = 6
    /\ LabelsOf("OnuMappingInfoGaugeDesc")[5] = "ABC123"
    /\ LabelsOf("OnuUptimeGaugeDesc") = << "ABC123" >>

\* the documented defaults
Defaults ==
    [boardMin |-> Int64(FALSE, << "1" >>), boardMax |-> Int64(FALSE, << "2" >>),
     ponMin |-> Int64(FALSE, << "1" >>), ponMax |-> Int64(FALSE, << "1", "6" >>),
     maxConcurrent |-> Int64(FALSE, << "1", "0" >>)]
\* a text is an integer: decimal digits after an optional sign
IsInteger(s) ==
    LET body == IF s # << >> /\ s[1] \in {"+", "-"} THEN Tail(s) ELSE s
    IN  body # << >> /\ AllDigits(body)
\* the integer that such a text denotes
Denoted(s) ==
    LET body == IF s[1] \in {"+", "-"} THEN Tail(s) ELSE s
        mag == StripZeros(body)
    IN  Int64(s[1] = "-" /\ mag # << "0" >>, mag)
\* the integer fits a Go int
FitsInt64(n) ==
    ~MagLess(IF n.neg THEN MinInt64Mag ELSE MaxInt64Mag, n.mag)
DefaultOrAsGiven(k) ==
    LET s == probe.env[k]
    IN  probe.c[FieldOfSetting[k]] =
            IF IsInteger(s) /\ Denoted(s) # Zero THEN Denoted(s)
            ELSE Defaults[FieldOfSetting[k]]

\* C28: each field of the collector holds the default of its setting when
\* the setting is unset, not an integer, or 0, and else the integer that the
\* setting denotes.
C28_DefaultOrAsGiven ==
    probe.called => \A k \in Settings : DefaultOrAsGiven(k)

\* The same holds of the settings whose integer fits 64 bits.
DefaultOrAsGivenIfFits ==
    probe.called =>
        \A k \in Settings :
            (IsInteger(probe.env[k]) => FitsInt64(Denoted(probe.env[k])))
                => DefaultOrAsGiven(k)

\* the jobs whose fetch succeeded in this cycle
Got == {j \in DOMAIN outcome : outcome[j].st = "got"}
SerialsOf(recs) == {r.SerialNumber : r \in recs}

\* C29: when a cycle during which the deadline did not expire has ended, the
\* serial numbers of the result are the non-empty serial numbers of the
\* records fetched successfully in the cycle, and the record under a serial
\* number is the record of one such fetch, with that serial number and the
\* board, port and device id of the job of that fetch.
C29_ResultIsWhatWasFetched ==
    (ppc = "done" /\ ~ctxDone) =>
        /\ SerialsOf(emitted) = SerialsOf(Fetched) \ {""}
        /\ DOMAIN uniqueOnus = SerialsOf(Fetched) \ {""}
        /\ emitted = Stored
        /\ \A s \in DOMAIN uniqueOnus :
              /\ uniqueOnus[s].SerialNumber = s
              /\ \E j \in Got :
                    /\ outcome[j].rec = uniqueOnus[s]
                    /\ SameDevice(uniqueOnus[s], j)

C29_Witness ==
    /\ ppc = "done" /\ ~ctxDone
    /\ \E j, k \in Got :
          /\ outcome[j].rec.SerialNumber = ""
          /\ outcome[k].rec.SerialNumber = "ABC123"
    /\ DOMAIN uniqueOnus = {"ABC123"}
    /\ Cardinality(emitted) = 1

\* the discovery of the (board, port) of a job has returned without an error
DiscoveryReturned(j) ==
    /\ << j.Board, j.PON >> \in visited
    /\ \A why \in {"address", "walk"} : << << j.Board, j.PON >>, why >> \notin skipped
\* a step that issues the Get of job j
IssuesGet(j) == Issued(j)' > Issued(j)

\* C30: a step issues the detail fetch of a job only if, before the step and
\* in the same cycle, the discovery of the job's (board, port) has returned
\* without an error with the job's device id in its list; so no fetch is
\* issued for a device that this cycle did not discover.
C30_FetchOnlyAfterDiscovery ==
    [][ \A j \in DOMAIN issued' :
            IssuesGet(j) => (j \in discovered /\ DiscoveryReturned(j)) ]_vars

\* a fetch of a cell is in flight while the walk of a later cell is
C30_Witness ==
    /\ ppc = "walk" /\ ~crashed
    /\ \E w \in Workers :
          /\ wpc[w] = "get"
          /\ << wjob[w].Board, wjob[w].PON >> \in CellsBefore(cell)
          /\ wjob[w] \in discovered
          /\ Issued(wjob[w]) = 1

\* a step replaces the entry stored for serial number s
Replaces(s) ==
    /\ s \in DOMAIN uniqueOnus
    /\ s \in DOMAIN uniqueOnus'
    /\ uniqueOnus'[s] # uniqueOnus[s]

\* C31: during a cycle a step replaces the entry stored for a serial number
\* only when the stored record has status Unknown and the record that takes
\* its place has not; so an entry whose status is not Unknown stays the same
\* record until the cycle ends, under every interleaving of the workers.
C31_ReplaceOnlyUnknown ==
    [][ Running =>
          \A s \in DOMAIN uniqueOnus :
              /\ s \in DOMAIN uniqueOnus'
              /\ Replaces(s) =>
                    /\ mapStatusToNumeric(uniqueOnus[s].Status) = 0
                    /\ mapStatusToNumeric(uniqueOnus'[s].Status) # 0 ]_vars

\* the map that one call, run on its own, ends with after merging the
\* records recs in this order
RECURSIVE MergedAlone(_, _)
MergedAlone(m, recs) ==
    IF recs = << >> THEN m
    ELSE LET k == MapKey(Head(recs))
             exists == k \in DOMAIN m
             existingOnu == IF exists THEN m[k] ELSE NoRecord
         IN  MergedAlone(IF ShouldStore(exists, existingOnu, Head(recs))
                         THEN (k :> Head(recs)) @@ m ELSE m,
                         Tail(recs))
IsPrefix(s, t) == Len(s) <= Len(t) /\ SubSeq(t, 1, Len(s)) = s

\* C32: of two calls of Collect that run side by side, the workers of each
\* receive only jobs that its own producer sent, in the order sent, and all of
\* them by the time the call returns; and the records a call emits are those
\* that it ends with when it merges, on its own, the records that its own
\* fetches returned.
C32_CallsAreIsolated ==
    \A c \in DOMAIN calls :
        /\ IsPrefix(calls[c].taken, calls[c].sent)
        /\ calls[c].pc = "done" =>
              /\ calls[c].taken = calls[c].sent
              /\ LET alone == MergedAlone(NewMap, calls[c].merged)
                 IN  calls[c].emitted = {alone[s] : s \in DOMAIN alone}

\* the second call has returned with a record while a fetch of the first
\* call, for the same device, is still in flight
C32_Witness ==
    /\ Len(calls) = 2
    /\ calls[2].pc = "done"
    /\ calls[2].emitted # {}
    /\ calls[1].pc = "wait"
    /\ calls[1].sent = calls[2].sent
    /\ \E w \in PoolIDs : calls[1].wpc[w] = "get"

\* C33: whatever integer the pool size setting holds, a cycle runs at least
\* one worker: while the producer waits on a full channel some worker has not
\* exited, and when the cycle has ended every discovered device was fetched.
C33_AtLeastOneWorker ==
    /\ ppc # "idle" => Workers # {}
    /\ (ppc = "enqueue" /\ Len(jobs) = JobsCap /\ ~crashed) =>
          \E w \in Workers : wpc[w] # "exit"
    /\ ppc = "done" => \A j \in discovered : Issued(j) = 1 /\ j \in Processed

\* The same holds of the pool sizes of at least 1.
AtLeastOneWorkerIfPositive == maxConcurrent >= 1 => C33_AtLeastOneWorker

Abs(n) == IF n < 0 THEN 0 - n ELSE n

Min(a, b) == IF a < b THEN a ELSE b
\* the first position of the asked page, counted from 0, and the positions
\* of the walk that the page covers
PageStart == (probe.pageIndex - 1) * probe.pageSize
PagePositions ==
    PageStart + 1 .. Min(PageStart + probe.pageSize, Len(probe.visitedPdus))
\* a page was asked for of a supported (board, port) whose walk succeeded
PageAsked ==
    /\ probe.called
    /\ Supported(probe.boardID, probe.ponID)
    /\ probe.walkErr = ErrNil
\* the entry of the list that stands for position i of the walk exists
ListedAt(i, k) ==
    LET e == probe.list[k]
    IN  /\ e.Board = probe.boardID /\ e.PON = probe.ponID
        /\ e.ID = Atoi(probe.visitedPdus[i].name.id)
        /\ IF probe.getErrs[i] = ErrNil
           THEN e.SerialNumber = "ABC123" /\ e.Name = "cust" /\ e.Status = "Online"
           ELSE /\ e.SerialNumber = "" /\ e.Name = "" /\ e.OnuType = ""
                /\ e.Status = "" /\ e.RXPower = << >>
PageIsRight ==
    /\ ~probe.panicked
    /\ probe.count = Len(probe.visitedPdus)
    /\ \A k \in DOMAIN probe.list :
          \A l \in DOMAIN probe.list : k < l => probe.list[k].ID <= probe.list[l].ID
    /\ \E f \in [PagePositions -> DOMAIN probe.list] :
          /\ \A i, j \in PagePositions : i # j => f[i] # f[j]
          /\ Len(probe.list) = Cardinality(PagePositions)
          /\ \A i \in PagePositions : ListedAt(i, f[i])
    /\ PageStart >= Len(probe.visitedPdus) => probe.list = << >>

\* C35: for a page index and a page size of at least 1, the listing returns
\* the number n of pdus the walk visited and, sorted by id, the devices at
\* the positions (page-1)*size .. min(page*size, n) of the walk, the detail
\* fields of a device whose fetch failed left empty; it returns the empty
\* page, without a crash, when (page-1)*size is n or more.
C35_PageOfTheWalk == PageAsked => PageIsRight

\* The same holds of the pages that start at or before the end of the walk.
PageOfTheWalkIfStartWithin ==
    (PageAsked /\ PageStart <= Len(probe.visitedPdus)) => PageIsRight

\* the device ids the walk of the free-id listing visited
VisitedOnuIDs == {Atoi(probe.visitedPdus[i].name.id) : i \in DOMAIN probe.visitedPdus}
\* the list holds exactly the ids of 1..128 that were not visited, each once,
\* ascending, under the requested board and port
FreeListIsRight ==
    /\ ~probe.panicked
    /\ probe.err = ErrNil
    /\ {probe.list[k].ID : k \in DOMAIN probe.list} = (1 .. 128) \ VisitedOnuIDs
    /\ Len(probe.list) = 128 - Cardinality(VisitedOnuIDs \cap (1 .. 128))
    /\ \A k \in DOMAIN probe.list :
          /\ probe.list[k].Board = probe.boardID
          /\ probe.list[k].PON = probe.ponID
          /\ k > 1 => probe.list[k - 1].ID < probe.list[k].ID
\* an error and no list
FailsWithError ==
    /\ ~probe.panicked
    /\ probe.err # ErrNil
    /\ probe.list = << >>

\* C36: for a supported (board, port) whose walk succeeds, GetEmptyOnuID
\* returns exactly the ids of 1..128 that the walk did not visit, each once,
\* ascending, with the requested board and port; when the address resolution
\* fails (a pair outside boards 1..2 x ports 1..16) or the walk fails, it
\* returns an error and no list.
C36_FreeIDsOrError ==
    probe.called =>
        IF Supported(probe.boardID, probe.ponID) /\ probe.walkErr = ErrNil
        THEN FreeListIsRight
        ELSE FailsWithError

\* The same holds of every pair but a supported board with a port outside
\* 1..16.
FreeIDsOrErrorIfResolved ==
    (probe.called /\ ~(probe.boardID \in {1, 2} /\ probe.ponID \notin 1 .. 16))
        => C36_FreeIDsOrError

====
